---------------------------- MODULE Spec2Model ----------------------------
(***************************************************************************)
(* Model of the HTML post-processing pipeline of scripts/post_processor     *)
(* (core.py): math protection, heading ids, section renumbering, citation  *)
(* rewriting, table wrapping, the safety gate and the orchestration in     *)
(* main.                                                                   *)
(*                                                                         *)
(* Text is modelled as a sequence of lexemes (strings): a delimiter, a tag *)
(* or a placeholder is one lexeme, the way the regular expressions of the  *)
(* source treat them.                                                      *)
(***************************************************************************)
EXTENDS Integers, Sequences, FiniteSets, TLC

VARIABLES
    \* ---- math protection (protect_math / restore_math) ----
    mInput,       \* doc_content handed to protect_math
    mContent,     \* doc_content as the steps rewrite it
    MATH_STORE,   \* token -> markup it replaced (module-level dict)
    mpc,          \* position in process_chapter: "read", "protected", "restored"
    \* ---- heading ids (generate_slug, enrichment ids) ----
    idChapter,           \* chapter being processed (0 before the first)
    idPhase,             \* pass of process_chapter the chapter is in
    used_ids,            \* ids handed out by generate_slug in this chapter
    enrichment_counter,  \* enrichment_counter[0]
    idCount,             \* heading elements seen in this chapter
    headingIds,          \* id -> number of headings of the output corpus carrying it
    \* ---- section renumbering (A4 unified pass, A5 fix_section_numbering) ----
    chapter_num,            \* chapter_data['num']
    nHeadings,              \* the h3/h4/h5 headings of the chapter, in document order
    nIdx,                   \* heading the loop is at
    section_counter,
    subsection_counter,
    subsubsection_counter,
    shown,                  \* number displayed on each heading processed (<<>>: none)
    npc,                    \* "renumber", "fix", "done"
    \* ---- citations (cite_repl, cite_number_repl) ----
    BIB_INDEX_MAP,   \* normalized bib key -> global bibliography number
    cOrig,           \* a link <a href=...>N</a> of the fragment, as the converter wrote it
    cLink,           \* the same link as the passes rewrite it
    cpc,             \* "links", "numbers", "done"
    cite_repl_stats, \* [total, replaced, not_found] of the number pass
    \* ---- tables (process_tables_antigravity, DOM path) ----
    soup,            \* the parsed fragment: node -> [kind, parent]; parent 0 is the root
    tRuns,           \* how many times the handler has been applied to the fragment
    \* ---- output validation (render_page_html, validate_output_safety) ----
    html,            \* the assembled page, a sequence of lexemes
    verdict,         \* <<>> before validation, then <<is_safe, error_msg>>
    \* ---- a run of main ----
    files,             \* chapter number -> content of the chapter file on disk
    bibliography_html, \* html_output/bibliography.html: [exists, entries]
    bbl_exists,        \* the .bbl (or .bib) source of the bibliography is there
    ONLY_CHAPTER_NUM,  \* the environment variable; 0 when it is not set
    CHAPTERS,          \* chapters found by discover_chapters, sorted
    target,            \* the chapters ONLY_CHAPTER_NUM selects
    to_process,        \* the chapters of the loop
    chIdx,             \* position of the loop in to_process
    pcMain,            \* "start", "bib", "load", "chapter", "validated", "aux", "done"
    original,          \* history: the chapter files when main started
    verdicts,          \* history: chapter number -> verdict of its page
    bibBuilt,          \* history: build_bib wrote the bibliography page in this run
    indexAtFirst,      \* history: BIB_INDEX_MAP when the first process_chapter began
    \* ---- one chapter file over successive runs of process_chapter ----
    rDoc,            \* the chapter file: [headings, links, stamp]
    rRuns,           \* how many times process_chapter has run on the file
    now,             \* the clock, in seconds
    rFirst,          \* history: the chapter file after the first run
    \* ---- one call of a function of the post-processor ----
    callArgs,        \* the arguments of the call, a record
    callResult,      \* <<>> before the call returns, then << what it returned >>
    \* ---- the locals of process_chapter that the heading ids share ----
    old_to_new_id_map  \* id the converter wrote -> readable id

mathVars == <<mInput, mContent, MATH_STORE, mpc>>
idVars == <<idChapter, idPhase, used_ids, enrichment_counter, idCount, headingIds>>

numVars == <<chapter_num, nHeadings, nIdx, section_counter, subsection_counter,
             subsubsection_counter, shown, npc>>

citeVars == <<BIB_INDEX_MAP, cOrig, cLink, cpc, cite_repl_stats>>

tableVars == <<soup, tRuns>>

safetyVars == <<html, verdict>>

mainVars == <<files, bibliography_html, bbl_exists, ONLY_CHAPTER_NUM, CHAPTERS, target,
              to_process, chIdx, pcMain, original, verdicts, bibBuilt, indexAtFirst>>

rerunVars == <<rDoc, rRuns, now, rFirst>>

callVars == <<callArgs, callResult>>

runVars == <<old_to_new_id_map>>

vars == <<mathVars, idVars, numVars, citeVars, tableVars, safetyVars, mainVars, rerunVars, callVars, runVars>>

\* the variables each specification leaves alone
mathOthers == <<idVars, numVars, citeVars, tableVars, safetyVars, mainVars, rerunVars, callVars, runVars>>
idOthers == <<mathVars, numVars, citeVars, tableVars, safetyVars, mainVars, rerunVars, callVars, runVars>>
numOthers == <<mathVars, idVars, citeVars, tableVars, safetyVars, mainVars, rerunVars, callVars, runVars>>
citeOthers == <<mathVars, idVars, numVars, tableVars, safetyVars, mainVars, rerunVars, callVars, runVars>>
tableOthers == <<mathVars, idVars, numVars, citeVars, safetyVars, mainVars, rerunVars, callVars, runVars>>
safetyOthers == <<mathVars, idVars, numVars, citeVars, tableVars, mainVars, rerunVars, callVars, runVars>>
mainOthers == <<mathVars, idVars, numVars, cOrig, cLink, cpc, cite_repl_stats, tableVars, rerunVars, callVars, runVars>>
rerunOthers == <<mathVars, idVars, numVars, citeVars, tableVars, safetyVars, mainVars, callVars, runVars>>
callOthers == <<mathVars, idVars, numVars, citeVars, tableVars, safetyVars, mainVars, rerunVars, runVars>>

(***************************************************************************)
(* Bounds                                                                  *)
(***************************************************************************)
MaxLen == 4
MaxHeadings == 2      \* heading elements per chapter (heading ids)
MaxSections == 4      \* h3/h4/h5 headings per chapter (renumbering)
MaxNodes == 4         \* elements of a fragment handed to the table handler
MaxRuns == 2          \* applications of the table handler to one fragment
MaxBody == 3          \* lexemes of a chapter body handed to the page renderer
NumChapters == 2      \* chapters of a run
MaxSpan == 2          \* colspan of a header cell as the converter emits it
MaxHeadCells == 2     \* cells of a header row
MaxCols == 4          \* cells of a data row
MaxDataRows == 2      \* data rows of a table
MaxTables == 3        \* tables of a fragment handed to the regex fallback
MaxTokens == 10       \* token numbers compared for the prefix property

\* Sequences over S of length at most n
SeqsUpTo(S, n) == UNION {[1..k -> S] : k \in 0..n}

\* cite_repl_stats = {'total': 0, 'replaced': 0, 'not_found': []}
NoStats == [total |-> 0, replaced |-> 0, not_found |-> <<>>]

\* Values of the variables a specification does not use
MathIdle ==
    /\ mInput = <<>>
    /\ mContent = <<>>
    /\ MATH_STORE = [t \in {} |-> <<>>]
    /\ mpc = "idle"

IdIdle ==
    /\ idChapter = 0
    /\ idPhase = "idle"
    /\ used_ids = {}
    /\ enrichment_counter = 0
    /\ idCount = 0
    /\ headingIds = [i \in {} |-> 0]

NumIdle ==
    /\ chapter_num = 0
    /\ nHeadings = <<>>
    /\ nIdx = 0
    /\ section_counter = 0
    /\ subsection_counter = 0
    /\ subsubsection_counter = 0
    /\ shown = <<>>
    /\ npc = "idle"

NoLink == [href |-> <<>>, hrefLast |-> TRUE, bracket |-> FALSE, num |-> 0]

CiteLinksIdle ==
    /\ cOrig = NoLink
    /\ cLink = NoLink
    /\ cpc = "idle"
    /\ cite_repl_stats = NoStats

CiteIdle ==
    /\ BIB_INDEX_MAP = [k \in {} |-> 0]
    /\ CiteLinksIdle

TableIdle ==
    /\ soup = <<>>
    /\ tRuns = 0

SafetyIdle ==
    /\ html = <<>>
    /\ verdict = <<>>

MainIdle ==
    /\ files = <<>>
    /\ bibliography_html = [exists |-> FALSE, entries |-> <<>>]
    /\ bbl_exists = FALSE
    /\ ONLY_CHAPTER_NUM = 0
    /\ CHAPTERS = <<>>
    /\ target = <<>>
    /\ to_process = <<>>
    /\ chIdx = 0
    /\ pcMain = "idle"
    /\ original = <<>>
    /\ verdicts = <<>>
    /\ bibBuilt = FALSE
    /\ indexAtFirst = <<>>

RerunIdle ==
    /\ rDoc = <<>>
    /\ rRuns = 0
    /\ now = 0
    /\ rFirst = <<>>

CallIdle ==
    /\ callArgs = <<>>
    /\ callResult = <<>>

RunIdle == old_to_new_id_map = <<>>

MathOthersIdle == IdIdle /\ NumIdle /\ CiteIdle /\ TableIdle /\ SafetyIdle /\ MainIdle /\ RerunIdle /\ CallIdle /\ RunIdle
IdOthersIdle == MathIdle /\ NumIdle /\ CiteIdle /\ TableIdle /\ SafetyIdle /\ MainIdle /\ RerunIdle /\ CallIdle /\ RunIdle
NumOthersIdle == MathIdle /\ IdIdle /\ CiteIdle /\ TableIdle /\ SafetyIdle /\ MainIdle /\ RerunIdle /\ CallIdle /\ RunIdle
CiteOthersIdle == MathIdle /\ IdIdle /\ NumIdle /\ TableIdle /\ SafetyIdle /\ MainIdle /\ RerunIdle /\ CallIdle /\ RunIdle
TableOthersIdle == MathIdle /\ IdIdle /\ NumIdle /\ CiteIdle /\ SafetyIdle /\ MainIdle /\ RerunIdle /\ CallIdle /\ RunIdle
SafetyOthersIdle == MathIdle /\ IdIdle /\ NumIdle /\ CiteIdle /\ TableIdle /\ MainIdle /\ RerunIdle /\ CallIdle /\ RunIdle
MainOthersIdle == MathIdle /\ IdIdle /\ NumIdle /\ CiteLinksIdle /\ TableIdle /\ RerunIdle /\ CallIdle /\ RunIdle
RerunOthersIdle ==
    MathIdle /\ IdIdle /\ NumIdle /\ CiteIdle /\ TableIdle /\ SafetyIdle /\ MainIdle /\ CallIdle /\ RunIdle
CallOthersIdle ==
    MathIdle /\ IdIdle /\ NumIdle /\ CiteIdle /\ TableIdle /\ SafetyIdle /\ MainIdle /\ RerunIdle /\ RunIdle

(***************************************************************************)
(* 0. MATH PROTECTION                                                      *)
(***************************************************************************)
\* Lexemes a fragment is drawn from: the display/inline delimiters, a MathML
\* element, plain text, and plain text that spells a placeholder.
MathAlphabet ==
    {"\\[", "\\]", "$$", "\\(", "\\)", "<math>", "</math>", "x", "MATH_TOKEN_0__"}

\* the same token without the closing underscores
TokenOfNoSuffix(store) == "MATH_TOKEN_" \o ToString(Cardinality(DOMAIN store))

\* f"MATH_TOKEN_{len(MATH_STORE)}__"
TokenOf(store) == "MATH_TOKEN_" \o ToString(Cardinality(DOMAIN store)) \o "__"

EmptyStore == [t \in {} |-> <<>>]

\* MATH_STORE[token] = m.group(0)
StorePut(store, tok, markup) ==
    [t \in (DOMAIN store) \cup {tok} |-> IF t = tok THEN markup ELSE store[t]]

\* the same search taking the end of the content when nothing closes
FirstCloseOrEnd(s, i, close) ==
    LET js == {j \in (i + 1)..Len(s) : s[j] = close}
    IN  IF js = {} THEN Len(s) ELSE CHOOSE j \in js : \A k \in js : j <= k

\* Position of the first `close` lexeme after position i, 0 when there is none
\* (the non-greedy .*? of the patterns stops at the first closing delimiter).
FirstClose(s, i, close) ==
    LET js == {j \in (i + 1)..Len(s) : s[j] = close}
    IN  IF js = {} THEN 0 ELSE CHOOSE j \in js : \A k \in js : j <= k

\* re.sub(open .*? close, repl, content, flags=re.DOTALL): leftmost matches,
\* left to right, not overlapping; repl allocates the next token and records
\* the matched markup.
RECURSIVE ReSubFrom(_, _, _, _, _, _)
ReSubFrom(s, i, open, close, out, store) ==
    IF i > Len(s) THEN [content |-> out, store |-> store]
    ELSE LET j == IF s[i] = open THEN FirstClose(s, i, close) ELSE 0
         IN  IF j = 0
             THEN ReSubFrom(s, i + 1, open, close, Append(out, s[i]), store)
             ELSE LET tok == TokenOf(store)
                  IN  ReSubFrom(s, j + 1, open, close, Append(out, tok),
                                StorePut(store, tok, SubSeq(s, i, j)))

ReSub(r, open, close) == ReSubFrom(r.content, 1, open, close, <<>>, r.store)

\* protect_math: MATH_STORE = {} and then the six substitutions in order.
protect_math(content) ==
    LET r0 == [content |-> content, store |-> EmptyStore]
        r1 == ReSub(r0, "<script>", "</script>")
        r2 == ReSub(r1, "<mjx-container>", "</mjx-container>")
        r3 == ReSub(r2, "<math>", "</math>")
        r4 == ReSub(r3, "\\[", "\\]")
        r5 == ReSub(r4, "$$", "$$")
        r6 == ReSub(r5, "\\(", "\\)")
    IN  r6

\* restore_math: one pattern.sub pass over the content; the text put back is
\* not scanned again.
RECURSIVE RestoreFrom(_, _, _)
RestoreFrom(s, i, store) ==
    IF i > Len(s) THEN <<>>
    ELSE (IF s[i] \in DOMAIN store THEN store[s[i]] ELSE <<s[i]>>)
         \o RestoreFrom(s, i + 1, store)

restore_math(content, store) ==
    IF DOMAIN store = {} THEN content ELSE RestoreFrom(content, 1, store)

\* the table as the transform of an earlier chapter left it
StaleStore ==
    [t \in {"MATH_TOKEN_0__", "MATH_TOKEN_1__"} |-> <<"$$", "y", "$$">>]

MathInit ==
    /\ mInput \in SeqsUpTo(MathAlphabet, MaxLen)
    /\ mContent = mInput
    /\ MATH_STORE \in {EmptyStore, StaleStore}
    /\ mpc = "read"
    /\ MathOthersIdle

\* process_chapter, "0. Protect Math"
ProtectStep ==
    /\ mpc = "read"
    /\ LET r == protect_math(mContent)
       IN  /\ mContent' = r.content
           /\ MATH_STORE' = r.store
    /\ mpc' = "protected"
    /\ UNCHANGED <<mInput, mathOthers>>

\* process_chapter, "Restore Math"
RestoreStep ==
    /\ mpc = "protected"
    /\ mContent' = restore_math(mContent, MATH_STORE)
    /\ mpc' = "restored"
    /\ UNCHANGED <<mInput, MATH_STORE, mathOthers>>

MathNext == ProtectStep \/ RestoreStep

SpecMath == MathInit /\ [][MathNext]_vars

(***************************************************************************)
(* Claims about math protection                                            *)
(***************************************************************************)
\* A fragment whose delimiters all belong to properly nested containers:
\* every opening delimiter is closed by its own closing delimiter.
RECURSIVE Balanced(_, _, _)
Balanced(s, i, stack) ==
    IF i > Len(s) THEN stack = <<>>
    ELSE LET c == s[i]
             top == IF stack = <<>> THEN "" ELSE stack[Len(stack)]
             pop == SubSeq(stack, 1, Len(stack) - 1)
         IN  CASE c \in {"\\[", "\\(", "<math>"} -> Balanced(s, i + 1, Append(stack, c))
               [] c = "\\]" -> top = "\\[" /\ Balanced(s, i + 1, pop)
               [] c = "\\)" -> top = "\\(" /\ Balanced(s, i + 1, pop)
               [] c = "</math>" -> top = "<math>" /\ Balanced(s, i + 1, pop)
               [] c = "$$" -> IF top = "$$" THEN Balanced(s, i + 1, pop)
                              ELSE Balanced(s, i + 1, Append(stack, c))
               [] OTHER -> Balanced(s, i + 1, stack)

WellFormedMath(s) == Balanced(s, 1, <<>>)

HasPlaceholderText(s) == \E i \in 1..Len(s) : s[i] = "MATH_TOKEN_0__"

\* C1: for every input whose math containers are well formed (nested
\* containers and plain text spelling a placeholder included),
\* restore_math(protect_math(x)) is exactly x.
C1_RoundTrip ==
    (mpc = "restored" /\ WellFormedMath(mInput)) => mContent = mInput

\* C2: right after restore_math in process_chapter no token recorded in the
\* token table remains in the chapter content (for a fragment whose own text
\* spells no placeholder).
C2_NoTokenSurvives ==
    (mpc = "restored" /\ ~HasPlaceholderText(mInput))
        => \A i \in 1..Len(mContent) : mContent[i] \notin DOMAIN MATH_STORE

(***************************************************************************)
(* 0.5 READABLE HEADING IDS                                                *)
(*                                                                         *)
(* A heading text is a sequence of lexemes; an id is the sequence of its   *)
(* hyphen-separated parts ("enrichment-foo-1" is <<"enrichment", "foo",     *)
(* "1">>), so two ids are the same string exactly when the sequences are   *)
(* equal.                                                                  *)
(***************************************************************************)
\* Visible texts of h1..h6 / sectionHead elements of a fragment
HeadingTexts ==
    { <<"Intro">>,
      <<"1.2", "Intro">>,
      <<"Enrichment", "foo", "1">>,
      <<"<b>", "MATH_TOKEN_0__", "</b>">> }

\* Texts of enrichment title paragraphs ("Enrichment: Title")
EnrichmentTexts ==
    { <<"Enrichment:", "foo">>, <<"Enrichment:", "Intro">> }

TagLexemes == {"<b>", "</b>"}
NumberLexemes == {"1.2", "1"}
TokenLexemes == {"MATH_TOKEN_0__"}

\* re.sub(r'[^a-zA-Z0-9]+', '-', text).strip('-').lower(), per lexeme: the
\* lower-cased alphanumeric runs of the lexeme.
AlnumRuns(lex) ==
    CASE lex = "Intro" -> <<"intro">>
      [] lex = "Enrichment" -> <<"enrichment">>
      [] lex = "Enrichment:" -> <<"enrichment">>
      [] lex = "foo" -> <<"foo">>
      [] lex = "Explicit" -> <<"explicit">>
      [] lex = "Backpropagation" -> <<"backpropagation">>
      [] lex = "7.1:" -> <<"7", "1">>
      [] lex = "7.2:" -> <<"7", "2">>
      [] lex = "7.3:" -> <<"7", "3">>
      [] lex = "7.4:" -> <<"7", "4">>
      [] lex = "1" -> <<"1">>
      [] lex = "1.2" -> <<"1", "2">>
      [] lex = "MATH_TOKEN_0__" -> <<"math", "token", "0">>
      [] lex = "<b>" -> <<"b">>
      [] lex = "</b>" -> <<"b">>
      [] OTHER -> <<>>

\* Length in characters of an id part
PartLen(w) ==
    CASE w = "intro" -> 5
      [] w = "enrichment" -> 10
      [] w = "section" -> 7
      [] w = "foo" -> 3
      [] w = "explicit" -> 8
      [] w = "backpropagation" -> 15
      [] w = "math" -> 4
      [] w = "token" -> 5
      [] OTHER -> 1

RECURSIVE Drop(_, _)
Drop(s, S) ==
    IF s = <<>> THEN <<>>
    ELSE (IF Head(s) \in S THEN <<>> ELSE <<Head(s)>>) \o Drop(Tail(s), S)

\* clean_text_for_slug: tags removed, a leading section number removed, math
\* placeholders removed
clean_text_for_slug(text) ==
    LET t1 == Drop(text, TagLexemes)
        t2 == IF t1 # <<>> /\ Head(t1) \in NumberLexemes THEN Tail(t1) ELSE t1
        t3 == Drop(t2, TokenLexemes)
    IN  t3

RECURSIVE Slugify(_)
Slugify(text) ==
    IF text = <<>> THEN <<>> ELSE AlnumRuns(Head(text)) \o Slugify(Tail(text))

\* len("-".join(parts))
RECURSIVE JoinedLen(_)
JoinedLen(parts) ==
    IF parts = <<>> THEN 0
    ELSE PartLen(Head(parts)) + (IF Len(parts) > 1 THEN 1 ELSE 0) + JoinedLen(Tail(parts))

SlugLimit == 60

\* the cut forgotten
TruncateNot(parts) == parts

\* slug[:60].rsplit('-', 1)[0]: the parts that end before the last hyphen of
\* the first 60 characters (no part of the vocabulary is 60 characters long).
Truncate(parts) ==
    LET ks == {k \in 1..(Len(parts) - 1) : JoinedLen(SubSeq(parts, 1, k)) + 1 <= SlugLimit}
    IN  IF ks = {} THEN <<parts[1]>>
        ELSE SubSeq(parts, 1, CHOOSE k \in ks : \A l \in ks : l <= k)

\* the while loop of generate_slug: base-k for the smallest k >= 2 not in use
RECURSIVE Disambiguate(_, _, _)
Disambiguate(base, counter, used) ==
    IF Append(base, ToString(counter)) \notin used
    THEN Append(base, ToString(counter))
    ELSE Disambiguate(base, counter + 1, used)

generate_slug(text, used_ids_set) ==
    LET slug0 == Slugify(clean_text_for_slug(text))
        slug1 == IF JoinedLen(slug0) > SlugLimit THEN Truncate(slug0) ELSE slug0
        base  == IF slug1 = <<>> THEN <<"section">> ELSE slug1
    IN  IF base \in used_ids_set THEN Disambiguate(base, 2, used_ids_set) ELSE base

\* eid = f'enrichment-{slug}-{enrichment_counter[0]}' of enrichment_title_repl
\* and add_enrichment_id; clean_title is the text after "Enrichment:"
EnrichmentId(title_text, counter) ==
    LET clean_title == IF title_text # <<>> /\ Head(title_text) = "Enrichment:"
                       THEN Tail(title_text) ELSE title_text
    IN  <<"enrichment">> \o Slugify(clean_title) \o <<ToString(counter)>>

IdInit ==
    /\ idChapter = 0
    /\ idPhase = "between"
    /\ used_ids = {}
    /\ enrichment_counter = 0
    /\ idCount = 0
    /\ headingIds = [i \in {} |-> 0]
    /\ IdOthersIdle

\* main: for ch in to_process: process_chapter(...) -- used_ids = set()
IdStartChapter ==
    /\ idPhase = "between"
    /\ idChapter < NumChapters
    /\ idChapter' = idChapter + 1
    /\ idPhase' = "h"
    /\ used_ids' = {}
    /\ idCount' = 0
    /\ UNCHANGED <<enrichment_counter, headingIds, idOthers>>

\* one more heading of the corpus carries `id`
Emit(id) ==
    [i \in (DOMAIN headingIds) \cup {id} |->
        IF i = id THEN (IF id \in DOMAIN headingIds THEN headingIds[id] + 1 ELSE 1)
        ELSE headingIds[i]]

\* generate_readable_id on the next <h1>..<h6> element
GenerateReadableId ==
    /\ idPhase = "h"
    /\ idCount < MaxHeadings
    /\ \E text \in HeadingTexts :
         LET slug == generate_slug(text, used_ids)
         IN  /\ used_ids' = used_ids \cup {slug}
             /\ headingIds' = Emit(slug)
    /\ idCount' = idCount + 1
    /\ UNCHANGED <<idChapter, idPhase, enrichment_counter, idOthers>>

\* the h1..h6 substitution is over; the sectionHead span/div one starts
IdHeadingsDone ==
    /\ idPhase = "h"
    /\ idPhase' = "span"
    /\ UNCHANGED <<idChapter, used_ids, enrichment_counter, idCount, headingIds, idOthers>>

\* generate_readable_id_span on the next span/div with a sectionHead class
GenerateReadableIdSpan ==
    /\ idPhase = "span"
    /\ idCount < MaxHeadings
    /\ \E text \in HeadingTexts :
         LET slug == generate_slug(text, used_ids)
         IN  /\ used_ids' = used_ids \cup {slug}
             /\ headingIds' = Emit(slug)
    /\ idCount' = idCount + 1
    /\ UNCHANGED <<idChapter, idPhase, enrichment_counter, idOthers>>

\* enrichment_counter = [0], before the enrichment title substitutions
IdSpansDone ==
    /\ idPhase = "span"
    /\ idPhase' = "enrichment"
    /\ enrichment_counter' = 0
    /\ UNCHANGED <<idChapter, used_ids, idCount, headingIds, idOthers>>

\* enrichment_title_repl on the next enrichment title paragraph
EnrichmentTitleRepl ==
    /\ idPhase = "enrichment"
    /\ idCount < MaxHeadings
    /\ \E title_text \in EnrichmentTexts :
         /\ enrichment_counter' = enrichment_counter + 1
         /\ headingIds' = Emit(EnrichmentId(title_text, enrichment_counter + 1))
    /\ idCount' = idCount + 1
    /\ UNCHANGED <<idChapter, idPhase, used_ids, idOthers>>

\* the chapter is assembled and written; main goes to the next chapter
IdFinishChapter ==
    /\ idPhase = "enrichment"
    /\ idPhase' = "between"
    /\ UNCHANGED <<idChapter, used_ids, enrichment_counter, idCount, headingIds, idOthers>>

IdNext ==
    \/ IdStartChapter
    \/ GenerateReadableId
    \/ IdHeadingsDone
    \/ GenerateReadableIdSpan
    \/ IdSpansDone
    \/ EnrichmentTitleRepl
    \/ IdFinishChapter

SpecIds == IdInit /\ [][IdNext]_vars

IdRunDone == idPhase = "between" /\ idChapter = NumChapters

\* C3: after all chapters of a run have been processed, no two heading
\* elements of the output corpus, in the same chapter or in different
\* chapters, carry the same id.
C3_IdsUniqueInCorpus ==
    IdRunDone => \A id \in DOMAIN headingIds : headingIds[id] = 1

(***************************************************************************)
(* A4 / A5. SECTION RENUMBERING                                            *)
(*                                                                         *)
(* A displayed number is the tuple of its dotted parts: "7.4.1" is         *)
(* <<7, 4, 1>>; <<>> stands for a heading that displays no number.         *)
(***************************************************************************)
ChapterNums == {1, 7}

\* The h3/h4/h5 headings the converter emits into a chapter.  titlemark: the
\* heading holds a <span class="titlemark">; anchor: the number at the end of
\* the id of the <a id="..."></a> that follows the titlemark (<<>>: no such
\* anchor); orig: the number the heading displays before the pass.
HeadingKinds(ch) ==
    { [tag |-> "h3", cls |-> "sectionHead", titlemark |-> TRUE, anchor |-> <<>>, orig |-> <<ch, 1>>],
      [tag |-> "h3", cls |-> "sectionHead", titlemark |-> TRUE, anchor |-> <<ch, 2>>, orig |-> <<ch, 2>>],
      [tag |-> "h3", cls |-> "sectionHead", titlemark |-> FALSE, anchor |-> <<>>, orig |-> <<>>],
      [tag |-> "h3", cls |-> "enrichment-title", titlemark |-> FALSE, anchor |-> <<>>, orig |-> <<>>],
      [tag |-> "h4", cls |-> "subsectionHead", titlemark |-> TRUE, anchor |-> <<>>, orig |-> <<ch, 1, 1>>],
      [tag |-> "h4", cls |-> "enrichment-title", titlemark |-> FALSE, anchor |-> <<>>, orig |-> <<>>],
      [tag |-> "h5", cls |-> "subsubsectionHead", titlemark |-> TRUE, anchor |-> <<>>, orig |-> <<ch, 1, 1, 1>>],
      [tag |-> "h5", cls |-> "enrichment-title", titlemark |-> FALSE, anchor |-> <<>>, orig |-> <<>>],
      [tag |-> "h3", cls |-> "chapterHead", titlemark |-> FALSE, anchor |-> <<>>, orig |-> <<>>] }

is_h3_section(h) == h.tag = "h3" /\ h.cls = "sectionHead"
is_h3_enrichment(h) == h.tag = "h3" /\ h.cls = "enrichment-title"
is_h4_subsection(h) == h.tag = "h4" /\ h.cls = "subsectionHead"
is_h4_enrichment(h) == h.tag = "h4" /\ h.cls = "enrichment-title"
is_h5_subsubsection(h) ==
    h.tag = "h5" /\ h.cls \in {"subsubsectionHead", "enrichment-title"}

\* the same iteration with the section branch forgetting to reset the
\* subsection counter
RenumberOneKeepsSubsection(h, ch, sec, sub, subsub) ==
    IF h.cls = "chapterHead"
    THEN [sec |-> sec, sub |-> sub, subsub |-> subsub, num |-> h.orig]
    ELSE IF is_h3_section(h)
    THEN [sec |-> sec + 1, sub |-> sub, subsub |-> 0,
          num |-> IF h.titlemark THEN <<ch, sec + 1>> ELSE h.orig]
    ELSE IF is_h3_enrichment(h)
    THEN [sec |-> sec + 1, sub |-> 0, subsub |-> 0, num |-> <<ch, sec + 1>>]
    ELSE IF is_h4_subsection(h)
    THEN [sec |-> sec, sub |-> sub + 1, subsub |-> 0,
          num |-> IF h.titlemark THEN <<ch, sec, sub + 1>> ELSE h.orig]
    ELSE IF is_h4_enrichment(h)
    THEN [sec |-> sec, sub |-> sub + 1, subsub |-> 0, num |-> <<ch, sec, sub + 1>>]
    ELSE IF is_h5_subsubsection(h)
    THEN [sec |-> sec, sub |-> sub, subsub |-> subsub + 1,
          num |-> IF h.cls = "enrichment-title"
                  THEN (IF sub > 0 THEN <<ch, sec, sub, subsub + 1>>
                        ELSE <<ch, sec, subsub + 1>>)
                  ELSE h.orig]
    ELSE [sec |-> sec, sub |-> sub, subsub |-> subsub, num |-> h.orig]

\* One iteration of `for heading in headings`: the counters after it and the
\* number the heading displays after it.
RenumberOne(h, ch, sec, sub, subsub) ==
    IF h.cls = "chapterHead"
    THEN [sec |-> sec, sub |-> sub, subsub |-> subsub, num |-> h.orig]
    ELSE IF is_h3_section(h)
    THEN [sec |-> sec + 1, sub |-> 0, subsub |-> 0,
          num |-> IF h.titlemark THEN <<ch, sec + 1>> ELSE h.orig]
    ELSE IF is_h3_enrichment(h)
    THEN [sec |-> sec + 1, sub |-> 0, subsub |-> 0, num |-> <<ch, sec + 1>>]
    ELSE IF is_h4_subsection(h)
    THEN [sec |-> sec, sub |-> sub + 1, subsub |-> 0,
          num |-> IF h.titlemark THEN <<ch, sec, sub + 1>> ELSE h.orig]
    ELSE IF is_h4_enrichment(h)
    THEN [sec |-> sec, sub |-> sub + 1, subsub |-> 0, num |-> <<ch, sec, sub + 1>>]
    ELSE IF is_h5_subsubsection(h)
    THEN [sec |-> sec, sub |-> sub, subsub |-> subsub + 1,
          num |-> IF h.cls = "enrichment-title"
                  THEN (IF sub > 0 THEN <<ch, sec, sub, subsub + 1>>
                        ELSE <<ch, sec, subsub + 1>>)
                  ELSE h.orig]
    ELSE [sec |-> sec, sub |-> sub, subsub |-> subsub, num |-> h.orig]

\* replace_mismatched_number: a titlemark showing a two-part number and
\* followed by an anchor whose id ends in a two-part number shows the anchor's
\* number.
replace_mismatched_number(h, num) ==
    IF h.titlemark /\ Len(num) = 2 /\ h.anchor # <<>> /\ num # h.anchor
    THEN h.anchor ELSE num

fix_section_numbering(hs, nums) ==
    [i \in DOMAIN nums |-> replace_mismatched_number(hs[i], nums[i])]

NumInit ==
    /\ chapter_num \in ChapterNums
    /\ nHeadings \in SeqsUpTo(HeadingKinds(chapter_num), MaxSections)
    /\ nIdx = 1
    /\ section_counter = 0
    /\ subsection_counter = 0
    /\ subsubsection_counter = 0
    /\ shown = <<>>
    /\ npc = "renumber"
    /\ NumOthersIdle

\* the body of `for heading in headings` for the next heading
RenumberHeading ==
    /\ npc = "renumber"
    /\ nIdx <= Len(nHeadings)
    /\ LET r == RenumberOne(nHeadings[nIdx], chapter_num, section_counter,
                            subsection_counter, subsubsection_counter)
       IN  /\ section_counter' = r.sec
           /\ subsection_counter' = r.sub
           /\ subsubsection_counter' = r.subsub
           /\ shown' = Append(shown, r.num)
    /\ nIdx' = nIdx + 1
    /\ UNCHANGED <<chapter_num, nHeadings, npc, numOthers>>

\* doc_content = str(soup) after the last heading
RenumberDone ==
    /\ npc = "renumber"
    /\ nIdx > Len(nHeadings)
    /\ npc' = "fix"
    /\ UNCHANGED <<chapter_num, nHeadings, nIdx, section_counter, subsection_counter,
                   subsubsection_counter, shown, numOthers>>

\* doc_content = fix_section_numbering(doc_content)
FixSectionNumbering ==
    /\ npc = "fix"
    /\ shown' = fix_section_numbering(nHeadings, shown)
    /\ npc' = "done"
    /\ UNCHANGED <<chapter_num, nHeadings, nIdx, section_counter, subsection_counter,
                   subsubsection_counter, numOthers>>

NumNext == RenumberHeading \/ RenumberDone \/ FixSectionNumbering

SpecNum == NumInit /\ [][NumNext]_vars

(***************************************************************************)
(* Claims about section numbering                                          *)
(***************************************************************************)
\* a < b as dotted tuples (lexicographic; a proper prefix is smaller)
RECURSIVE TupleLess(_, _)
TupleLess(a, b) ==
    IF b = <<>> THEN FALSE
    ELSE IF a = <<>> THEN TRUE
    ELSE IF Head(a) # Head(b) THEN Head(a) < Head(b)
    ELSE TupleLess(Tail(a), Tail(b))

\* positions of the headings that display a number
Numbered == {i \in DOMAIN shown : shown[i] # <<>>}

\* C4: after the renumbering pass and fix_section_numbering the numbers
\* displayed on the headings of a chapter are strictly increasing in document
\* order, start with the chapter ordinal and have two to four parts.
C4_NumbersStrictlyIncreasing ==
    npc = "done" =>
        /\ \A i, j \in Numbered : i < j => TupleLess(shown[i], shown[j])
        /\ \A i \in Numbered : shown[i][1] = chapter_num /\ Len(shown[i]) \in 2..4

\* C5: an h3 enrichment heading right after another h3 enrichment heading is
\* numbered as a subsection ch.S.k of the section ch.S the run started, and an
\* h3 enrichment heading not preceded by one is a new section.
C5_EnrichmentRunIsSubsection ==
    \A i \in DOMAIN shown :
        (i > 1 /\ is_h3_enrichment(nHeadings[i]) /\ is_h3_enrichment(nHeadings[i - 1]))
            => /\ Len(shown[i]) = 3
               /\ SubSeq(shown[i], 1, 2) = SubSeq(shown[i - 1], 1, 2)

(***************************************************************************)
(* 9. CITATIONS                                                            *)
(*                                                                         *)
(* An href and a bib key are sequences of lexemes: "#0_smith2020" is       *)
(* <<"#", "0_", "smith2020">>, the key "bibtex" is <<"bib", "tex">>.        *)
(***************************************************************************)
BibPage == "bibliography.html#bib-"

\* keys cited in a fragment: two bibliography keys, one of which starts with
\* the letters "bib", and the id of a section
CitedKeys == { <<"smith2020">>, <<"bib", "tex">>, <<"x1-5">> }

\* what the converter and earlier runs put in front of the key
HrefPrefixes ==
    { <<"#", "0_">>, <<"#", "X0-">>, <<"#", "cite.">>, <<"#", "0@">>,
      <<"#", "cite.", "0@">>, <<"#">>, <<BibPage>>, <<BibPage, "0@">> }

\* the global numbering build_bib gives the bibliography entries
BibIndexes ==
    { [k \in {} |-> 0],
      [k \in {<<"smith2020">>} |-> 12],
      [k \in {<<"smith2020">>, <<"bib", "tex">>} |-> IF k = <<"smith2020">> THEN 12 ELSE 3],
      [k \in {<<"smith2020">>, <<"tex">>} |-> IF k = <<"smith2020">> THEN 12 ELSE 7] }

\* <a href="HREF">N</a>, <a href="HREF">[N]</a>, and the same with a further
\* attribute between the href and the closing > of the tag
Links ==
    [href : {p \o k : p \in HrefPrefixes, k \in CitedKeys},
     hrefLast : BOOLEAN, bracket : BOOLEAN, num : {5}]

\* re.sub(r'^\d+@', '', key)
StripRefsection(key) ==
    IF key # <<>> /\ Head(key) = "0@" THEN Tail(key) ELSE key

RECURSIVE LStrip(_, _)
LStrip(key, chars) ==
    IF key # <<>> /\ Head(key) \in chars THEN LStrip(Tail(key), chars) ELSE key

KnownPrefixes == {"cite.", "bib.", "X0-", "0_", "cite", "bib"}

normalize_bib_key(key) ==
    LET k1 == StripRefsection(key)
        k2 == IF k1 # <<>> /\ Head(k1) \in KnownPrefixes THEN Tail(k1) ELSE k1
    IN  LStrip(k2, {".", "-", "_"})

\* any(x in anchor.lower() for x in ['cite', 'bib']) or anchor.startswith('0_')
\* or anchor.startswith('X0-') or '@' in anchor
CitationLike(anchor) ==
    \/ \E i \in 1..Len(anchor) :
          anchor[i] \in {"cite.", "cite", "bib.", "bib", "0@", "explicit"}
    \/ (anchor # <<>> /\ Head(anchor) \in {"0_", "X0-"})

cite_repl(href) ==
    IF href # <<>> /\ Head(href) = "#"
    THEN LET anchor == LStrip(href, {"#"})
             key == normalize_bib_key(anchor)
         IN  IF CitationLike(anchor) /\ key # <<>> THEN <<BibPage>> \o key ELSE href
    ELSE IF href # <<>> /\ Head(href) = BibPage
    THEN LET existing_key == Tail(href)
             normalized == normalize_bib_key(existing_key)
         IN  IF normalized # existing_key THEN <<BibPage>> \o normalized ELSE href
    ELSE href

\* the pattern href="bibliography\.html#bib-([^"]+)">\s*(\[)?(\d+)(\])?\s*</a>
\* matches the link
NumberPatternMatches(link) ==
    /\ Len(link.href) >= 2
    /\ Head(link.href) = BibPage
    /\ link.hrefLast

cite_number_repl(link, index) ==
    LET key == Tail(link.href)
        normalized_key == StripRefsection(key)
    IN  IF normalized_key \in DOMAIN index
        THEN [link EXCEPT !.href = <<BibPage>> \o normalized_key,
                          !.num = index[normalized_key]]
        ELSE link

\* what cite_number_repl does to cite_repl_stats for one match
CountCitation(link, index, stats) ==
    LET key == Tail(link.href)
    IN  IF StripRefsection(key) \in DOMAIN index
        THEN [stats EXCEPT !.total = @ + 1, !.replaced = @ + 1]
        ELSE [stats EXCEPT !.total = @ + 1,
                           !.not_found = IF Len(@) < 5 THEN Append(@, key) ELSE @]

CiteInit ==
    /\ BIB_INDEX_MAP \in BibIndexes
    /\ cOrig \in Links
    /\ cLink = cOrig
    /\ cpc = "links"
    /\ cite_repl_stats = NoStats
    /\ CiteOthersIdle

\* doc_content = re.sub(r'href="([^"]+)"', cite_repl, doc_content)
CiteReplStep ==
    /\ cpc = "links"
    /\ cLink' = [cLink EXCEPT !.href = cite_repl(cLink.href)]
    /\ cpc' = "numbers"
    /\ UNCHANGED <<BIB_INDEX_MAP, cOrig, cite_repl_stats, citeOthers>>

\* doc_content = re.sub(<number pattern>, cite_number_repl, doc_content)
CiteNumberReplStep ==
    /\ cpc = "numbers"
    /\ cLink' = IF NumberPatternMatches(cLink)
                THEN cite_number_repl(cLink, BIB_INDEX_MAP) ELSE cLink
    /\ cite_repl_stats' = IF NumberPatternMatches(cLink)
                          THEN CountCitation(cLink, BIB_INDEX_MAP, cite_repl_stats)
                          ELSE cite_repl_stats
    /\ cpc' = "done"
    /\ UNCHANGED <<BIB_INDEX_MAP, cOrig, citeOthers>>

CiteNext == CiteReplStep \/ CiteNumberReplStep

SpecCite == CiteInit /\ [][CiteNext]_vars

(***************************************************************************)
(* Claims about citations                                                  *)
(***************************************************************************)
\* the link is a citation link: cite_repl takes its href for a citation
IsCitationLink(link) ==
    \/ (Head(link.href) = "#" /\ CitationLike(Tail(link.href)))
    \/ Head(link.href) = BibPage

NormalizedKeyOf(link) == normalize_bib_key(Tail(link.href))

\* C6: after the citation passes every citation link whose normalized key is
\* in the global bib index points to bibliography.html#bib-<normalized key>
\* and displays the number the index assigns to that key.
C6_CitationShowsGlobalNumber ==
    (cpc = "done" /\ IsCitationLink(cOrig) /\ NormalizedKeyOf(cOrig) \in DOMAIN BIB_INDEX_MAP)
        => /\ cLink.href = <<BibPage>> \o NormalizedKeyOf(cOrig)
           /\ cLink.num = BIB_INDEX_MAP[NormalizedKeyOf(cOrig)]

(***************************************************************************)
(* 10. TABLES (DOM path of process_tables_antigravity)                     *)
(*                                                                         *)
(* soup[n] = [kind, parent]. Kinds: "table" (a table whose rows have at    *)
(* most two cells), "wideTable" (rows of more than two cells), "td" (a td  *)
(* or th), "div", "tabular" (div.tabular), "wrapper" (div.table-wrapper)   *)
(* and "gone" (decomposed, or no longer in the tree). Parent 0 is the      *)
(* root; parent -1 is an element taken out of the tree. Elements are       *)
(* numbered so that an element comes after its ancestors, as in            *)
(* find_all's document order.                                              *)
(***************************************************************************)
Tables == {"table", "wideTable"}
Detached == 0 - 1

\* fragments as the converter writes them: no table-wrapper yet, a cell
\* belongs to a table
Fragments ==
    { d \in [1..MaxNodes -> [kind : Tables \cup {"td", "div", "tabular"}, parent : 0..(MaxNodes - 1)]] :
        \A n \in 1..MaxNodes :
            /\ d[n].parent < n
            /\ d[n].kind = "td" => (d[n].parent > 0 /\ d[d[n].parent].kind \in Tables) }

RECURSIVE Ancestors(_, _)
Ancestors(dom, n) ==
    IF dom[n].parent <= 0 THEN {} ELSE {dom[n].parent} \cup Ancestors(dom, dom[n].parent)

RECURSIVE RootOf(_, _)
RootOf(dom, n) ==
    IF dom[n].parent <= 0 THEN dom[n].parent ELSE RootOf(dom, dom[n].parent)

\* the element is part of the tree that str(soup) serializes
InTree(dom, n) == dom[n].kind # "gone" /\ RootOf(dom, n) = 0

\* element.decompose() for every element of S: the elements and all their
\* descendants are destroyed
Decompose(dom, S) ==
    [n \in DOMAIN dom |->
        IF n \in S \/ Ancestors(dom, n) \cap S # {}
        THEN [kind |-> "gone", parent |-> Detached] ELSE dom[n]]

\* cell.clear(): the children of the cell are extracted from the tree
Clear(dom, cell) ==
    [n \in DOMAIN dom |->
        IF dom[n].parent = cell THEN [dom[n] EXCEPT !.parent = Detached] ELSE dom[n]]

\* step 1.75 for one cell
FlattenCell(dom, cell) ==
    LET direct == {n \in DOMAIN dom : dom[n].parent = cell /\ dom[n].kind \in Tables}
        tabular_divs == {n \in DOMAIN dom : dom[n].parent = cell /\ dom[n].kind = "tabular"}
        nested_tables == direct \cup
            {n \in DOMAIN dom : dom[n].kind \in Tables /\ Ancestors(dom, n) \cap tabular_divs # {}}
        \* a nested row of at most two cells yields a stacked line
        stacked_lines ==
            \E n \in DOMAIN dom :
                /\ dom[n].kind = "table"
                /\ (n \in nested_tables \/ Ancestors(dom, n) \cap nested_tables # {})
        d1 == Decompose(dom, nested_tables)
        d2 == Decompose(d1, {n \in DOMAIN d1 : d1[n].kind \in {"tabular", "wrapper"}
                                               /\ cell \in Ancestors(d1, n)})
    IN  IF nested_tables = {} THEN dom
        ELSE IF stacked_lines THEN Clear(d2, cell) ELSE d2

\* for cell in table.find_all(['td', 'th']): the list is taken before the loop
RECURSIVE FlattenFrom(_, _, _)
FlattenFrom(dom, cells, c) ==
    IF c > Len(dom) THEN dom
    ELSE FlattenFrom(IF c \in cells THEN FlattenCell(dom, c) ELSE dom, cells, c + 1)

FlattenNested(dom, table) ==
    FlattenFrom(dom, {c \in DOMAIN dom : dom[c].kind = "td" /\ table \in Ancestors(dom, c)}, 1)

\* table.wrap(wrapper)
Wrap(dom, table) ==
    [dom EXCEPT ![table].parent = Len(dom) + 1]
        \o << [kind |-> "wrapper", parent |-> dom[table].parent] >>

\* table.find_parent('td') or table.find_parent('th')
InCell(dom, table) == \E a \in Ancestors(dom, table) : dom[a].kind = "td"

\* table.find_parent(class_='table-wrapper') is not None
AlreadyWrappedNever(dom, table) == FALSE
already_wrapped(dom, table) == \E a \in Ancestors(dom, table) : dom[a].kind = "wrapper"

\* the body of the loop over soup.find_all('table')
ProcessTable(dom, table) ==
    IF InCell(dom, table) THEN dom
    ELSE IF dom[table].kind = "gone" THEN dom
    ELSE LET flattened == FlattenNested(dom, table)
         IN  IF already_wrapped(dom, table) THEN flattened ELSE Wrap(flattened, table)

RECURSIVE ProcessFrom(_, _, _)
ProcessFrom(dom, tables, t) ==
    IF t > Len(dom) THEN dom
    ELSE ProcessFrom(IF t \in tables THEN ProcessTable(dom, t) ELSE dom, tables, t + 1)

\* return str(soup): what is no longer in the tree is not serialized
Serialize(dom) ==
    [n \in DOMAIN dom |->
        IF InTree(dom, n) THEN dom[n] ELSE [kind |-> "gone", parent |-> Detached]]

process_tables_antigravity(dom) ==
    Serialize(ProcessFrom(dom, {t \in DOMAIN dom : dom[t].kind \in Tables}, 1))

TableInit ==
    /\ soup \in Fragments
    /\ tRuns = 0
    /\ TableOthersIdle

ApplyTables ==
    /\ tRuns < MaxRuns
    /\ soup' = process_tables_antigravity(soup)
    /\ tRuns' = tRuns + 1
    /\ UNCHANGED tableOthers

TableNext == ApplyTables

SpecTable == TableInit /\ [][TableNext]_vars

(***************************************************************************)
(* Claims about tables                                                     *)
(***************************************************************************)
WrapperAncestors(dom, n) == {a \in Ancestors(dom, n) : dom[a].kind = "wrapper"}

NonNestedTables(dom) ==
    {n \in DOMAIN dom : dom[n].kind \in Tables /\ InTree(dom, n) /\ ~InCell(dom, n)}

\* C7: after the DOM table handler has been applied one or more times, every
\* table that is not nested in a cell has exactly one table-wrapper ancestor.
C7_ExactlyOneWrapper ==
    tRuns >= 1 =>
        \A n \in NonNestedTables(soup) : Cardinality(WrapperAncestors(soup, n)) = 1

\* the handler has run twice on a fragment with a table that holds a nested
\* table in one of its cells and a second table that is not nested
C7_Witness ==
    /\ tRuns = 2
    /\ Cardinality(NonNestedTables(soup)) >= 2
    /\ \E n \in DOMAIN soup : soup[n].kind = "gone"

(***************************************************************************)
(* 11. PAGE ASSEMBLY AND OUTPUT VALIDATION                                 *)
(*                                                                         *)
(* A page is a sequence of lexemes; LexLen gives the number of characters  *)
(* of each, so that len() is computed and not assumed.                     *)
(***************************************************************************)
DocContentAttr == "id=\"doc_content\""
SidebarAttr == "class=\"sidebar\""
TopBarAttr == "class=\"top-bar\""
ContentStart == "<!-- content-start -->"
ContentEnd == "<!-- content-end -->"
Indent == "\n                        "
Para446 == "<p>446 characters</p>"
Para445 == "<p>445 characters</p>"
PageHead == "<!DOCTYPE html><html><head>...</head><body>"
PageFoot == "<script>...</script></body></html>"
LeftoverToken == "MATH_TOKEN_7__"

MIN_CONTENT_LENGTH == 500
MinTotalLength == 5000
PrefixWindow == 50    \* characters before a table the regex fallback inspects

\* what a processed chapter body may hold
BodyLexemes ==
    { "<h1>", "<h3>", Para446, Para445, LeftoverToken,
      DocContentAttr, SidebarAttr, TopBarAttr, ContentEnd }

\* sidebars built from the chapter's headings
Sidebars == { <<"<nav>">>, <<"<nav>", LeftoverToken>> }

LexLen(lex) ==
    CASE lex = Para446 -> 446
      [] lex = Para445 -> 445
      [] lex = Indent -> 25
      [] lex = ContentStart -> 22
      [] lex = ContentEnd -> 20
      [] lex = DocContentAttr -> 16
      [] lex = SidebarAttr -> 15
      [] lex = TopBarAttr -> 15
      [] lex = LeftoverToken -> 14
      [] lex = "<h1>" -> 4
      [] lex = "<h3>" -> 4
      [] lex = "<nav>" -> 5
      [] lex = "title" -> 5
      [] lex = PageHead -> 20000
      [] lex = PageFoot -> 20000
      [] OTHER -> 1

RECURSIVE TextLen(_)
TextLen(s) == IF s = <<>> THEN 0 ELSE LexLen(Head(s)) + TextLen(Tail(s))

\* str.count(lex)
Count(s, lex) == Cardinality({i \in 1..Len(s) : s[i] = lex})

render_page_html(title, body_content, sidebar_html) ==
    <<PageHead, SidebarAttr>> \o sidebar_html \o <<TopBarAttr>> \o title
        \o <<DocContentAttr, ContentStart, Indent>> \o body_content
        \o <<Indent, ContentEnd, PageFoot>>

\* re.search(r'<!-- content-start -->(.*?)<!-- content-end -->', html, re.DOTALL):
\* the first start marker that has an end marker after it, and the first
\* end marker after that start
MarkerStarts(s) ==
    {i \in 1..Len(s) : s[i] = ContentStart /\ \E j \in (i + 1)..Len(s) : s[j] = ContentEnd}

MarkerMatch(s) ==
    IF MarkerStarts(s) = {} THEN <<>>
    ELSE LET i == CHOOSE a \in MarkerStarts(s) : \A b \in MarkerStarts(s) : a <= b
             j == CHOOSE a \in (i + 1)..Len(s) :
                      /\ s[a] = ContentEnd
                      /\ \A b \in (i + 1)..Len(s) : s[b] = ContentEnd => a <= b
         IN  << SubSeq(s, i + 1, j - 1) >>

\* re.search(r'<h[12][^>]*>', content, re.IGNORECASE)
HasMainHeading(content) ==
    \E i \in 1..Len(content) : content[i] \in {"<h1>", "<h2>", "<H1>", "<H2>"}

\* 'MATH_TOKEN_' in html_content
HasMathToken(s) == \E i \in 1..Len(s) : s[i] = LeftoverToken

SidebarCountIgnored(s) == 1
sidebar_count(s) == Count(s, SidebarAttr)

validate_output_safety(html_content) ==
    LET match == MarkerMatch(html_content)
        content == IF match = <<>> THEN html_content ELSE match[1]
    IN  IF Count(html_content, DocContentAttr) # 1
            THEN <<FALSE, "Invalid doc_content count">>
        ELSE IF match = <<>> /\ TextLen(html_content) < MinTotalLength
            THEN <<FALSE, "Total HTML too short">>
        ELSE IF match # <<>> /\ TextLen(content) < MIN_CONTENT_LENGTH
            THEN <<FALSE, "Content too short">>
        ELSE IF ~HasMainHeading(content)
            THEN <<FALSE, "No headings (h1/h2) found in content">>
        ELSE IF HasMathToken(html_content)
            THEN <<FALSE, "Unrestored math placeholder found">>
        ELSE IF sidebar_count(html_content) # 1
            THEN <<FALSE, "Invalid sidebar count">>
        ELSE IF Count(html_content, TopBarAttr) # 1
            THEN <<FALSE, "Invalid top-bar count">>
        ELSE <<TRUE, "">>

SafetyInit ==
    /\ html = <<>>
    /\ verdict = <<>>
    /\ SafetyOthersIdle

\* html = render_page_html(...)
RenderPage ==
    /\ html = <<>>
    /\ \E body \in SeqsUpTo(BodyLexemes, MaxBody), sb \in Sidebars :
           html' = render_page_html(<<"title">>, body, sb)
    /\ UNCHANGED <<verdict, safetyOthers>>

\* is_safe, error_msg = validate_output_safety(html, html_file.name)
ValidatePage ==
    /\ html # <<>>
    /\ verdict = <<>>
    /\ verdict' = validate_output_safety(html)
    /\ UNCHANGED <<html, safetyOthers>>

SafetyNext == RenderPage \/ ValidatePage

SpecSafety == SafetyInit /\ [][SafetyNext]_vars

(***************************************************************************)
(* Claims about output validation                                          *)
(***************************************************************************)
\* the text between the content-start marker and the next content-end marker
BetweenMarkers(s) ==
    LET i == CHOOSE a \in 1..Len(s) : s[a] = ContentStart /\ \A b \in 1..(a - 1) : s[b] # ContentStart
        j == CHOOSE a \in (i + 1)..Len(s) : s[a] = ContentEnd /\ \A b \in (i + 1)..(a - 1) : s[b] # ContentEnd
    IN  SubSeq(s, i + 1, j - 1)

UnsafeConditions(s) ==
    \/ Count(s, DocContentAttr) # 1
    \/ TextLen(BetweenMarkers(s)) < MIN_CONTENT_LENGTH
    \/ ~HasMainHeading(BetweenMarkers(s))
    \/ HasMathToken(s)
    \/ Count(s, SidebarAttr) # 1
    \/ Count(s, TopBarAttr) # 1

\* C8: validate_output_safety returns (False, reason) for a page exactly when
\* the page has not exactly one doc_content, or the content between the
\* markers is shorter than MIN_CONTENT_LENGTH, or that content has no h1/h2,
\* or the page contains MATH_TOKEN_, or it has not exactly one sidebar, or
\* not exactly one top-bar; otherwise it returns (True, "").
C8_UnsafeExactlyWhen ==
    verdict # <<>> =>
        /\ (verdict[1] = FALSE) <=> UnsafeConditions(html)
        /\ (verdict[1] = FALSE) => verdict[2] # ""
        /\ (verdict[1] = TRUE) => verdict[2] = ""

\* a page that passes every check except the sidebar count has been rejected
C8_Witness ==
    /\ verdict # <<>>
    /\ verdict[1] = FALSE
    /\ Count(html, SidebarAttr) = 2
    /\ Count(html, DocContentAttr) = 1
    /\ Count(html, TopBarAttr) = 1
    /\ ~HasMathToken(html)
    /\ HasMainHeading(BetweenMarkers(html))
    /\ TextLen(BetweenMarkers(html)) = MIN_CONTENT_LENGTH + LexLen(SidebarAttr)

(***************************************************************************)
(* 12. A RUN OF main                                                       *)
(***************************************************************************)
\* the chapter file as the converter wrote it
RawChapter(num) == <<"<body>", "chapter", ToString(num), "</body>">>

\* bodies process_chapter may arrive at: a sound one, one that lost its
\* content, one with a placeholder left in it
ChapterBodies ==
    { <<"<h1>", Para446>>, <<"<h1>">>, <<"<h1>", Para446, LeftoverToken>> }

\* entries of a bibliography page left by an earlier run, and of the page
\* build_bib writes from the .bbl file
StaleBib == [k \in {<<"smith2020">>} |-> 12]
BuiltBib == [k \in {<<"adams2019">>, <<"smith2020">>} |-> IF k = <<"adams2019">> THEN 1 ELSE 2]

NoBibPage == [exists |-> FALSE, entries |-> <<>>]

RECURSIVE SortedSeq(_)
SortedSeq(S) ==
    IF S = {} THEN <<>>
    ELSE LET m == CHOOSE x \in S : \A y \in S : x <= y
         IN  <<m>> \o SortedSeq(S \ {m})

\* build_bib(): the page is written when a source is found
build_bib(page, source_found) ==
    IF source_found THEN [exists |-> TRUE, entries |-> BuiltBib] ELSE page

\* load_bib_index_map(bib_path)
load_bib_index_map(index, page) ==
    IF ~page.exists THEN index
    ELSE [k \in DOMAIN index \cup DOMAIN page.entries |->
            IF k \in DOMAIN page.entries THEN page.entries[k] ELSE index[k]]

\* if not is_safe: return
AlwaysSafe(v) == TRUE
is_safe(v) == v[1]

MainInit ==
    /\ files \in {[c \in S |-> RawChapter(c)] : S \in SUBSET (1..NumChapters)}
    /\ bibliography_html \in {NoBibPage, [exists |-> TRUE, entries |-> StaleBib]}
    /\ bbl_exists \in BOOLEAN
    /\ ONLY_CHAPTER_NUM \in 0..(NumChapters + 1)
    /\ CHAPTERS = <<>>
    /\ target = <<>>
    /\ to_process = <<>>
    /\ chIdx = 0
    /\ pcMain = "start"
    /\ original = files
    /\ verdicts = <<>>
    /\ bibBuilt = FALSE
    /\ indexAtFirst = <<>>
    /\ BIB_INDEX_MAP = [k \in {} |-> 0]
    /\ html = <<>>
    /\ verdict = <<>>
    /\ MainOthersIdle

\* discover_chapters(); if not CHAPTERS: return; target; to_process
MainStart ==
    /\ pcMain = "start"
    /\ LET chs == SortedSeq(DOMAIN files)
           IsTarget(c) == c = ONLY_CHAPTER_NUM
           tgt == IF ONLY_CHAPTER_NUM # 0 THEN SelectSeq(chs, IsTarget) ELSE <<>>
       IN  /\ CHAPTERS' = chs
           /\ target' = tgt
           /\ to_process' = IF tgt # <<>> THEN tgt ELSE chs
           /\ pcMain' = IF chs = <<>> THEN "done" ELSE "bib"
    /\ UNCHANGED <<files, bibliography_html, bbl_exists, ONLY_CHAPTER_NUM, chIdx, original,
                   verdicts, bibBuilt, indexAtFirst, BIB_INDEX_MAP, html, verdict, mainOthers>>

\* if not target: build_bib()
BuildBibStep ==
    /\ pcMain = "bib"
    /\ bibliography_html' = IF target = <<>> THEN build_bib(bibliography_html, bbl_exists)
                            ELSE bibliography_html
    /\ bibBuilt' = (target = <<>> /\ bbl_exists)
    /\ pcMain' = "load"
    /\ UNCHANGED <<files, bbl_exists, ONLY_CHAPTER_NUM, CHAPTERS, target, to_process, chIdx,
                   original, verdicts, indexAtFirst, BIB_INDEX_MAP, html, verdict, mainOthers>>

\* load_bib_index_map(bib_path), then the loop over to_process begins
LoadBibIndexMap ==
    /\ pcMain = "load"
    /\ BIB_INDEX_MAP' = load_bib_index_map(BIB_INDEX_MAP, bibliography_html)
    /\ indexAtFirst' = BIB_INDEX_MAP'
    /\ chIdx' = 1
    /\ pcMain' = "chapter"
    /\ UNCHANGED <<files, bibliography_html, bbl_exists, ONLY_CHAPTER_NUM, CHAPTERS, target,
                   to_process, original, verdicts, bibBuilt, html, verdict, mainOthers>>

\* process_chapter up to the safety check: the page is assembled and validated
ValidateChapter ==
    /\ pcMain = "chapter"
    /\ \E body \in ChapterBodies :
           /\ html' = render_page_html(<<"title">>, body, <<"<nav>">>)
           /\ verdict' = validate_output_safety(html')
    /\ pcMain' = "validated"
    /\ UNCHANGED <<files, bibliography_html, bbl_exists, ONLY_CHAPTER_NUM, CHAPTERS, target,
                   to_process, chIdx, original, verdicts, bibBuilt, indexAtFirst, BIB_INDEX_MAP,
                   mainOthers>>

\* process_chapter from the safety check on: return, or html_file.write_text;
\* then the loop goes to the next chapter
FinishChapter ==
    /\ pcMain = "validated"
    /\ LET num == to_process[chIdx]
       IN  /\ files' = IF is_safe(verdict) THEN [files EXCEPT ![num] = html] ELSE files
           /\ verdicts' = [c \in DOMAIN verdicts \cup {num} |->
                              IF c = num THEN [verdict |-> verdict, page |-> html]
                              ELSE verdicts[c]]
    /\ html' = <<>>
    /\ verdict' = <<>>
    /\ chIdx' = chIdx + 1
    /\ pcMain' = IF chIdx + 1 > Len(to_process) THEN "aux" ELSE "chapter"
    /\ UNCHANGED <<bibliography_html, bbl_exists, ONLY_CHAPTER_NUM, CHAPTERS, target, to_process,
                   original, bibBuilt, indexAtFirst, BIB_INDEX_MAP, mainOthers>>

\* if not target: build_index(), preface, dependency graph
AuxPages ==
    /\ pcMain = "aux"
    /\ pcMain' = "done"
    /\ UNCHANGED <<files, bibliography_html, bbl_exists, ONLY_CHAPTER_NUM, CHAPTERS, target,
                   to_process, chIdx, original, verdicts, bibBuilt, indexAtFirst, BIB_INDEX_MAP,
                   html, verdict, mainOthers>>

MainNext ==
    \/ MainStart
    \/ BuildBibStep
    \/ LoadBibIndexMap
    \/ ValidateChapter
    \/ FinishChapter
    \/ AuxPages

SpecMain == MainInit /\ [][MainNext]_vars

(***************************************************************************)
(* Claims about a run of main                                              *)
(***************************************************************************)
\* C9: a chapter file is overwritten only after validate_output_safety
\* returned safe for the page assembled for that chapter, and with that page;
\* when the validator returns unsafe the file stays as it was before
\* process_chapter, and main goes on to process every remaining chapter.
C9_WriteOnlyAfterSafe ==
    pcMain # "idle" =>
        /\ \A c \in DOMAIN files :
              /\ files[c] # original[c] =>
                    /\ c \in DOMAIN verdicts
                    /\ verdicts[c].verdict[1] = TRUE
                    /\ files[c] = verdicts[c].page
              /\ (c \in DOMAIN verdicts /\ verdicts[c].verdict[1] = FALSE) =>
                    files[c] = original[c]
        /\ pcMain = "validated" => files[to_process[chIdx]] = original[to_process[chIdx]]
        /\ pcMain \in {"aux", "done"} =>
              \A i \in 1..Len(to_process) : to_process[i] \in DOMAIN verdicts

\* the run is over: the first chapter's page was unsafe and its file is
\* untouched, the second chapter was still processed and written
C9_Witness ==
    /\ pcMain = "done"
    /\ Len(to_process) >= 2
    /\ verdicts[to_process[1]].verdict[1] = FALSE
    /\ files[to_process[1]] = original[to_process[1]]
    /\ verdicts[to_process[2]].verdict[1] = TRUE
    /\ files[to_process[2]] = verdicts[to_process[2]].page

\* C10: in every run of main whose bibliography source is there, including
\* runs restricted by ONLY_CHAPTER_NUM, while chapters are processed the
\* bibliography page has been built in this run, the index holds exactly the
\* entries of that page, and the index is the one the first process_chapter saw.
C10_BibReadyBeforeChapters ==
    (pcMain \in {"chapter", "validated"} /\ bbl_exists) =>
        /\ bibBuilt
        /\ bibliography_html.exists
        /\ BIB_INDEX_MAP = bibliography_html.entries
        /\ BIB_INDEX_MAP = indexAtFirst

(***************************************************************************)
(* 13. ONE CHAPTER FILE OVER SUCCESSIVE RUNS                               *)
(*                                                                         *)
(* The file holds its headings in document order, its local anchor links   *)
(* and the build stamp of the page head.  A heading is [kind, text, id]:   *)
(* kind "h" is an <h3 class="sectionHead">, "p" an enrichment title        *)
(* paragraph of the converter, "e" an <h3 class="enrichment-title">; id    *)
(* <<>> means the element has no id attribute.  A link is [to, href]: to   *)
(* is the heading whose id the author linked to.                           *)
(***************************************************************************)
\* what the converter writes for the i-th heading of a chapter
RawHeadings(i) ==
    { [kind |-> "h", text |-> <<"Intro">>, id |-> <<>>],
      [kind |-> "h", text |-> <<"Intro">>, id |-> <<"x1", ToString(i)>>],
      [kind |-> "h", text |-> <<"Explicit">>, id |-> <<"x1", ToString(i)>>],
      [kind |-> "p", text |-> <<"Enrichment:", "foo">>, id |-> <<>>] }

RawDocs ==
    { [headings |-> hs, links |-> ls, stamp |-> 0 - 1] :
        hs \in UNION {{h \in [1..n -> UNION {RawHeadings(i) : i \in 1..n}] :
                          \A i \in 1..n : h[i] \in RawHeadings(i)} : n \in 1..MaxHeadings},
        ls \in {<<>>} \cup {<<[to |-> i, href |-> <<"#", "x1", ToString(i)>>]>> : i \in 1..MaxHeadings} }

\* the h1..h6 substitution with generate_readable_id, heading by heading:
\* <<headings, used_ids, old_to_new_id_map>>
RECURSIVE ReadableIdsFrom(_, _, _, _)
ReadableIdsFrom(hs, i, used, map) ==
    IF i > Len(hs) THEN <<hs, used, map>>
    ELSE IF hs[i].kind = "p" THEN ReadableIdsFrom(hs, i + 1, used, map)
    ELSE LET slug == generate_slug(hs[i].text, used)
             old_id == hs[i].id
         IN  ReadableIdsFrom([hs EXCEPT ![i].id = slug], i + 1, used \cup {slug},
                 IF old_id = <<>> THEN map
                 ELSE [k \in DOMAIN map \cup {old_id} |-> IF k = old_id THEN slug ELSE map[k]])

update_internal_link(href, map) ==
    IF href # <<>> /\ Head(href) = "#" /\ Tail(href) \in DOMAIN map
    THEN <<"#">> \o map[Tail(href)] ELSE href

\* re.sub(r'^Enrichment(?:\s+[\d.]+)?:\s*', '', text)
CleanTitle(text) ==
    IF text # <<>> /\ Head(text) = "Enrichment:" THEN Tail(text)
    ELSE IF Len(text) >= 2 /\ Head(text) = "Enrichment"
              /\ text[2] \in {"7.1:", "7.2:", "7.3:", "7.4:"} THEN Tail(Tail(text))
    ELSE text

\* the two enrichment title substitutions with enrichment_title_repl
RECURSIVE EnrichmentTitlesFrom(_, _, _)
EnrichmentTitlesFrom(hs, i, counter) ==
    IF i > Len(hs) THEN hs
    ELSE IF hs[i].kind # "p" THEN EnrichmentTitlesFrom(hs, i + 1, counter)
    ELSE EnrichmentTitlesFrom(
             [hs EXCEPT ![i].kind = "e",
                        ![i].id = EnrichmentId(hs[i].text, counter + 1)],
             i + 1, counter + 1)

\* the unified renumbering pass on the text of the h3 headings of chapter 7
RenumberTexts(hs) ==
    [i \in DOMAIN hs |->
        IF hs[i].kind = "e"
        THEN [hs[i] EXCEPT !.text = <<"Enrichment", "7." \o ToString(i) \o ":">>
                                        \o CleanTitle(hs[i].text)]
        ELSE hs[i]]

\* process_chapter on the chapter file at time t
process_chapter(doc, t) ==
    LET r == ReadableIdsFrom(doc.headings, 1, {}, [k \in {} |-> <<>>])
        links1 == [j \in DOMAIN doc.links |->
                      [doc.links[j] EXCEPT !.href = update_internal_link(@, r[3])]]
        links2 == [j \in DOMAIN links1 |-> [links1[j] EXCEPT !.href = cite_repl(@)]]
    IN  [headings |-> RenumberTexts(EnrichmentTitlesFrom(r[1], 1, 0)),
         links |-> links2,
         stamp |-> t]

RerunInit ==
    /\ rDoc \in {d \in RawDocs :
                    \A j \in DOMAIN d.links :
                        /\ d.links[j].to <= Len(d.headings)
                        /\ d.headings[d.links[j].to].id = Tail(d.links[j].href)}
    /\ rRuns = 0
    /\ now = 0
    /\ rFirst = <<>>
    /\ RerunOthersIdle

\* main runs process_chapter on the chapter file
ProcessChapter ==
    /\ rRuns < MaxRuns
    /\ rDoc' = process_chapter(rDoc, now)
    /\ rFirst' = IF rRuns = 0 THEN rDoc' ELSE rFirst
    /\ rRuns' = rRuns + 1
    /\ UNCHANGED <<now, rerunOthers>>

\* a second passes between two runs
Tick ==
    /\ now < rRuns
    /\ now' = now + 1
    /\ UNCHANGED <<rDoc, rRuns, rFirst, rerunOthers>>

RerunNext == ProcessChapter \/ Tick

SpecRerun == RerunInit /\ [][RerunNext]_vars

(***************************************************************************)
(* Claims about successive runs                                            *)
(***************************************************************************)
\* C11: process_chapter on the output of a previous process_chapter run gives
\* every heading, plain or enrichment, the id it carried after the first run.
C11_IdsStableOnRerun ==
    rRuns >= 2 =>
        \A i \in DOMAIN rDoc.headings : rDoc.headings[i].id = rFirst.headings[i].id


\* C12: after main has run twice in succession over the same working
\* directory, the chapter file is byte-identical to what it was after the
\* first run.
C12_SecondRunByteIdentical ==
    rRuns >= 2 => rDoc = rFirst

\* the link pointed to the id its heading carried before the run
LinkedBefore(doc, j) ==
    doc.links[j].href = <<"#">> \o doc.headings[doc.links[j].to].id

PassAlphabet == {"\\(", "\\)", "\\hdots", "\\bm", "x"}

RewriteLexeme(content, from, to) ==
    [i \in DOMAIN content |-> IF content[i] = from THEN to ELSE content[i]]

\* "0b. Sanitize LaTeX commands in math content BEFORE protection":
\* re.sub(r'\\hdots\b', r'\\cdots', doc_content)
sanitize_latex(content) == RewriteLexeme(content, "\\hdots", "\\cdots")

\* clean_latex_artifacts: content.replace(r'\bm', r'\boldsymbol')
clean_latex_artifacts(content) == RewriteLexeme(content, "\\bm", "\\boldsymbol")

PassesInit ==
    /\ mInput \in SeqsUpTo(PassAlphabet, MaxLen)
    /\ mContent = mInput
    /\ MATH_STORE = EmptyStore
    /\ mpc = "extracted"
    /\ MathOthersIdle

\* process_chapter from the content extraction up to "0. Protect Math"
SanitizeStep ==
    /\ mpc = "extracted"
    /\ mContent' = sanitize_latex(mContent)
    /\ mpc' = "read"
    /\ UNCHANGED <<mInput, MATH_STORE, mathOthers>>

\* process_chapter after "Restore Math": the post-restore cleanup
CleanupStep ==
    /\ mpc = "restored"
    /\ mContent' = clean_latex_artifacts(mContent)
    /\ mpc' = "cleaned"
    /\ UNCHANGED <<mInput, MATH_STORE, mathOthers>>

PassesNext == SanitizeStep \/ ProtectStep \/ RestoreStep \/ CleanupStep

SpecPasses == PassesInit /\ [][PassesNext]_vars

\* the \( ... \) containers of a fragment: <<first, last>> positions
MathContainers(s) ==
    { <<i, j>> \in (1..Len(s)) \X (1..Len(s)) :
        /\ i < j /\ s[i] = "\\(" /\ s[j] = "\\)"
        /\ \A k \in (i + 1)..(j - 1) : s[k] \notin {"\\(", "\\)"} }

Occurs(c, s) == \E k \in 1..(Len(s) - Len(c) + 1) : SubSeq(s, k, k + Len(c) - 1) = c

\* C14: every math container of the chapter fragment appears unchanged in the
\* content process_chapter produces: neither the sanitising before
\* protect_math, nor the passes between protect_math and restore_math, nor the
\* cleanup after restore_math alters text inside a math container.
C14_MathContainersUntouched ==
    (mpc = "cleaned" /\ WellFormedMath(mInput)) =>
        \A c \in MathContainers(mInput) : Occurs(SubSeq(mInput, c[1], c[2]), mContent)

(***************************************************************************)
(* 15. THE TABLE OF CONTENTS OF A CHAPTER                                  *)
(***************************************************************************)
\* Pass 1 of extract_toc_from_body: the h3/h4 headings it collects, by
\* position in the chapter (h5 and "Chapter N" headings are skipped)
TocPositions(hs) ==
    SortedSeq({i \in DOMAIN hs : hs[i].tag \in {"h3", "h4"} /\ hs[i].cls # "chapterHead"})

\* Passes 2 and 3 of extract_toc_from_body from the k-th collected heading on:
\* run is <<>>, or <<parent_num, subsection_counter>> inside a group of
\* consecutive h3 enrichments
RECURSIVE TocFrom(_, _, _, _, _)
TocFrom(hs, nums, ps, k, run) ==
    IF k > Len(ps) THEN <<>>
    ELSE LET i == ps[k]
             h == hs[i]
         IN  IF is_h3_enrichment(h) /\ run # <<>>
             THEN << [pos |-> i, num |-> Append(run[1], run[2]),
                      is_subsection |-> TRUE, is_enrichment |-> TRUE] >>
                  \o TocFrom(hs, nums, ps, k + 1, <<run[1], run[2] + 1>>)
             ELSE IF is_h3_enrichment(h)
             THEN << [pos |-> i, num |-> SubSeq(nums[i], 1, 2),
                      is_subsection |-> FALSE, is_enrichment |-> TRUE] >>
                  \o TocFrom(hs, nums, ps, k + 1, <<SubSeq(nums[i], 1, 2), 1>>)
             ELSE << [pos |-> i, num |-> nums[i],
                      is_subsection |-> (h.tag = "h4" \/ Len(nums[i]) >= 3),
                      is_enrichment |-> (h.cls = "enrichment-title")] >>
                  \o TocFrom(hs, nums, ps, k + 1, <<>>)

extract_toc_from_body(hs, nums) == TocFrom(hs, nums, TocPositions(hs), 1, <<>>)

\* C15: extract_toc_from_body classifies every h3/h4 heading as enrichment or
\* plain and as section or subsection, and shows it with a number, exactly as
\* the renumbering pass classified and numbered the heading in the body.
C15_TocAgreesWithBody ==
    npc = "done" =>
        LET toc == extract_toc_from_body(nHeadings, shown)
        IN  \A k \in DOMAIN toc :
                /\ toc[k].num = shown[toc[k].pos]
                /\ toc[k].is_subsection = (nHeadings[toc[k].pos].tag = "h4")
                /\ toc[k].is_enrichment = (nHeadings[toc[k].pos].cls = "enrichment-title")

(***************************************************************************)
(* 16. COLSPAN REPAIR IN process_tables_antigravity                        *)
(*                                                                         *)
(* soup holds one table after the empty rows were removed: its header row  *)
(* and data rows as sequences of cells, whether the header row sits in a   *)
(* thead and whether the data rows sit in a tbody.  tRuns counts the       *)
(* repair steps applied: 0 none, 1 the category dividers of step 1.77,     *)
(* 2 the colspan mismatch fix of step 2.45.                                *)
(***************************************************************************)
HeaderCells == [colspan : 1..MaxSpan, text : BOOLEAN]
DataCells == [colspan : {1}, text : {TRUE}]

\* rows of one to n cells
RowsOf(cells, n) == UNION {[1..k -> cells] : k \in 1..n}

\* sum(int(c.get('colspan', 1)) for c in cells)
RECURSIVE RowCols(_)
RowCols(row) == IF row = <<>> THEN 0 ELSE Head(row).colspan + RowCols(Tail(row))

\* the largest column count of a set of rows (0 for no rows)
MaxColsOf(rows) ==
    IF rows = {} THEN 0
    ELSE CHOOSE m \in {RowCols(r) : r \in rows} : \A r \in rows : RowCols(r) <= m

\* step 1.77 on one row: a single cell with text narrower than the table is
\* expanded to the full width
FixDivider(row, max_cols) ==
    IF max_cols > 1 /\ Len(row) = 1 /\ row[1].text /\ row[1].colspan < max_cols
    THEN << [row[1] EXCEPT !.colspan = max_cols] >>
    ELSE row

\* step 1.77 on the table
fix_incomplete_dividers(t) ==
    LET max_cols == MaxColsOf({t.head} \cup {t.data[i] : i \in DOMAIN t.data})
    IN  [t EXCEPT !.head = FixDivider(t.head, max_cols),
                  !.data = [i \in DOMAIN t.data |-> FixDivider(t.data[i], max_cols)]]

\* data_rows of step 2.45: the rows of tbody, or without a tbody the tr
\* children of the table after the first
data_rows(t) ==
    IF t.tbody THEN t.data
    ELSE IF t.thead THEN Tail(t.data)
    ELSE t.data

\* the first cell of a row with colspan > 1, 0 when there is none
GroupedCell(row) ==
    IF \E i \in DOMAIN row : row[i].colspan > 1
    THEN CHOOSE i \in DOMAIN row :
             /\ row[i].colspan > 1
             /\ \A j \in 1..(i - 1) : row[j].colspan = 1
    ELSE 0

\* step 2.45 on the table
fix_colspan_mismatch(t) ==
    LET rows == data_rows(t)
        actual_cols == MaxColsOf({rows[i] : i \in DOMAIN rows})
        g == GroupedCell(t.head)
    IN  IF rows # <<>> /\ t.thead /\ RowCols(t.head) < actual_cols /\ g # 0
        THEN [t EXCEPT !.head[g].colspan = @ + (actual_cols - RowCols(t.head))]
        ELSE t

ColspanInit ==
    /\ soup \in {[thead |-> th, tbody |-> tb, head |-> h, data |-> d] :
                    th \in BOOLEAN, tb \in BOOLEAN,
                    h \in {r \in RowsOf(HeaderCells, MaxHeadCells) :
                              \E i \in DOMAIN r : r[i].text},
                    d \in RowsOf(RowsOf(DataCells, MaxCols), MaxDataRows)}
    /\ tRuns = 0
    /\ TableOthersIdle

FixIncompleteDividers ==
    /\ tRuns = 0
    /\ soup' = fix_incomplete_dividers(soup)
    /\ tRuns' = 1
    /\ UNCHANGED tableOthers

FixColspanMismatch ==
    /\ tRuns = 1
    /\ soup' = fix_colspan_mismatch(soup)
    /\ tRuns' = 2
    /\ UNCHANGED tableOthers

ColspanNext == FixIncompleteDividers \/ FixColspanMismatch

SpecColspan == ColspanInit /\ [][ColspanNext]_vars

\* the column count of the data rows of the table
DataCols(t) == MaxColsOf({t.data[i] : i \in DOMAIN t.data})

\* C16: the colspan fix leaves every header row (a row inside thead) whose
\* summed colspans were smaller than the column count of the data rows with a
\* summed colspan equal to that column count, the other header rows as they were.
C16_HeaderRowRepaired ==
    [][(tRuns = 1 /\ soup.thead /\ soup.tbody) =>
          IF RowCols(soup.head) < DataCols(soup)
          THEN RowCols(soup'.head) = DataCols(soup)
          ELSE soup'.head = soup.head]_vars

(***************************************************************************)
(* 17. Claim about the flattening of nested tables                         *)
(***************************************************************************)
\* C17: flattening turns the nested rows of at most two cells into stacked
\* text lines, and a nested table whose rows have more than two cells is not
\* flattened: it stays in the output of process_tables_antigravity, so none
\* of its cell text is removed.
C17_WideNestedRowsKept ==
    [][\A n \in DOMAIN soup :
          (soup[n].kind = "wideTable" /\ InTree(soup, n))
              => (soup'[n].kind = "wideTable" /\ InTree(soup', n))]_vars

(***************************************************************************)
(* 18. Claim about citation keys missing from the index                    *)
(***************************************************************************)
\* C18: a citation link (a link to the bibliography page after the link pass)
\* whose key is not in the global bib index keeps the number it displayed, and
\* the miss is recorded in cite_repl_stats for the report (counted in total
\* and not in replaced, its key in the sample).
C18_MissKeptAndRecorded ==
    (/\ cpc = "done"
     /\ Head(cLink.href) = BibPage
     /\ StripRefsection(Tail(cLink.href)) \notin DOMAIN BIB_INDEX_MAP)
        => /\ cLink.num = cOrig.num
           /\ cite_repl_stats.total - cite_repl_stats.replaced = 1
           /\ cite_repl_stats.not_found = << Tail(cLink.href) >>

(***************************************************************************)
(* 19. TWO CHAPTER TRANSFORMS INTERLEAVED                                  *)
(*                                                                         *)
(* mInput, mContent and mpc are here functions of the chapter; MATH_STORE  *)
(* is the one module-level dictionary both transforms use.  The passes     *)
(* between protect_math and restore_math work on the content of their own  *)
(* chapter, on their own used_ids and on the bib index, which they only    *)
(* read; on fragments of placeholders and plain words they change nothing. *)
(***************************************************************************)
ParChapters == {"A", "B"}

ParAlphabet == {"\\(", "\\)", "x", "y"}

ParInit ==
    /\ mInput \in [ParChapters -> SeqsUpTo(ParAlphabet, MaxBody)]
    /\ mContent = mInput
    /\ MATH_STORE = EmptyStore
    /\ mpc = [c \in ParChapters |-> "read"]
    /\ MathOthersIdle

\* process_chapter of chapter c, "0. Protect Math"
ParProtect(c) ==
    /\ mpc[c] = "read"
    /\ LET r == protect_math(mContent[c])
       IN  /\ mContent' = [mContent EXCEPT ![c] = r.content]
           /\ MATH_STORE' = r.store
    /\ mpc' = [mpc EXCEPT ![c] = "protected"]
    /\ UNCHANGED <<mInput, mathOthers>>

\* process_chapter of chapter c, the passes after protect_math up to the
\* TOC extraction
ParPasses(c) ==
    /\ mpc[c] = "protected"
    /\ mpc' = [mpc EXCEPT ![c] = "extracted"]
    /\ UNCHANGED <<mInput, mContent, MATH_STORE, mathOthers>>

\* process_chapter of chapter c, "Restore Math"
ParRestore(c) ==
    /\ mpc[c] = "extracted"
    /\ mContent' = [mContent EXCEPT ![c] = restore_math(mContent[c], MATH_STORE)]
    /\ mpc' = [mpc EXCEPT ![c] = "restored"]
    /\ UNCHANGED <<mInput, MATH_STORE, mathOthers>>

ParNext == \E c \in ParChapters : ParProtect(c) \/ ParPasses(c) \/ ParRestore(c)

SpecParallel == ParInit /\ [][ParNext]_vars

\* the output of the transform of one chapter running alone
TransformedAlone(content) ==
    LET r == protect_math(content)
    IN  restore_math(r.content, r.store)

\* C19: whatever the interleaving of the steps of the transforms of chapters
\* A and B, the output of each chapter equals the output of transforming that
\* chapter alone.
C19_InterleavingIndependent ==
    \A c \in ParChapters :
        mpc[c] = "restored" => mContent[c] = TransformedAlone(mInput[c])

(***************************************************************************)
(* 20. TABLES (regex fallback of process_tables_antigravity)               *)
(*                                                                         *)
(* soup is here [raised, html_content]: the content the caller holds, a    *)
(* sequence of lexemes, and whether the call raised instead of returning.  *)
(* FChars gives the number of characters of each lexeme, so that the 50    *)
(* characters the replacer looks at before a table are counted.  tRuns     *)
(* counts the calls.                                                       *)
(***************************************************************************)
WrapperOpen == "<div class=\"table-wrapper\">"
CaptionDivOpen == "<div class=\"table-caption\">"
BookTable == "<table class=\"book-table\">"
BookTableTwice == "<table class=\"book-table book-table\">"
NoteSpanOpen == "<span class=\"note\">"

\* no caption, or a caption element with one of three texts
Captions == {<<>>, <<"">>, <<"Note">>, <<"Table 1: Results">>}

FChars(lex) ==
    CASE lex = WrapperOpen -> 27
      [] lex = CaptionDivOpen -> 27
      [] lex = BookTable -> 26
      [] lex = BookTableTwice -> 37
      [] lex = NoteSpanOpen -> 19
      [] lex = "Table 1: Results" -> 16
      [] lex = "</caption>" -> 10
      [] lex = "<caption>" -> 9
      [] lex = "<tr></tr>" -> 9
      [] lex = "</table>" -> 8
      [] lex = "Table 1:" -> 8
      [] lex = "<table>" -> 7
      [] lex = "Results" -> 7
      [] lex = "</span>" -> 7
      [] lex = "</div>" -> 6
      [] lex = "Note" -> 4
      [] lex = "\n" -> 1
      [] OTHER -> 0

RECURSIVE FLen(_)
FLen(s) == IF s = <<>> THEN 0 ELSE FChars(Head(s)) + FLen(Tail(s))

\* a table as the converter writes it
RawTable(cap) ==
    <<"<table>">>
        \o (IF cap = <<>> THEN <<>> ELSE <<"<caption>">> \o cap \o <<"</caption>">>)
        \o <<"<tr></tr>", "</table>">>

RECURSIVE TablesOf(_)
TablesOf(caps) == IF caps = <<>> THEN <<>> ELSE RawTable(Head(caps)) \o TablesOf(Tail(caps))

\* fragments of one to MaxTables tables
FallbackInputs == {TablesOf(caps) : caps \in SeqsUpTo(Captions, MaxTables) \ {<<>>}}

IsTableOpen(lex) == lex \in {"<table>", BookTable, BookTableTwice}

\* 1) Inject class
InjectClass(open_tag) ==
    IF open_tag = "<table>" THEN BookTable
    ELSE IF open_tag = BookTable THEN BookTableTwice
    ELSE open_tag

\* 'table-wrapper' in html_content[max(0, match.start() - 50):match.start()]:
\* the 15 characters table-wrapper"> of an opening wrapper tag end within the
\* window of PrefixWindow characters before the table
WrapperInPrefix(doc, i) ==
    \E k \in 1..(i - 1) :
        /\ doc[k] = WrapperOpen
        /\ FLen(SubSeq(doc, k + 1, i - 1)) + 15 <= PrefixWindow

\* position of <caption> in the content of a table, 0 when it has none
CaptionAt(content) ==
    IF \E k \in DOMAIN content : content[k] = "<caption>"
    THEN CHOOSE k \in DOMAIN content :
             content[k] = "<caption>" /\ \A l \in 1..(k - 1) : content[l] # "<caption>"
    ELSE 0

\* 2) Extract caption
caption_html(content) ==
    LET k == CaptionAt(content)
    IN  IF k = 0 THEN <<>>
        ELSE IF content[k + 1] = "Table 1: Results"
        THEN <<CaptionDivOpen, "Table 1:", NoteSpanOpen, "Results", "</span>", "</div>">>
        ELSE <<CaptionDivOpen, content[k + 1], "</div>">>

\* content.replace(caption_match.group(0), "")
RemoveCaption(content) ==
    LET k == CaptionAt(content)
    IN  IF k = 0 THEN content
        ELSE SubSeq(content, 1, k - 1) \o SubSeq(content, k + 3, Len(content))

\* replacer for one match m of the table pattern starting at position i
replacer(doc, i, m) ==
    IF WrapperInPrefix(doc, i) THEN m
    ELSE LET content == SubSeq(m, 2, Len(m) - 1)
         IN  <<WrapperOpen, "\n">> \o caption_html(content)
                 \o <<"\n", InjectClass(m[1])>> \o RemoveCaption(content)
                 \o <<"</table>", "\n", "</div>">>

\* table_pattern.sub(replacer, html_content)
RECURSIVE FallbackFrom(_, _, _)
FallbackFrom(doc, i, out) ==
    IF i > Len(doc) THEN out
    ELSE LET j == IF IsTableOpen(doc[i]) THEN FirstClose(doc, i, "</table>") ELSE 0
         IN  IF j = 0 THEN FallbackFrom(doc, i + 1, Append(out, doc[i]))
             ELSE FallbackFrom(doc, j + 1, out \o replacer(doc, i, SubSeq(doc, i, j)))

\* the name re in the except branch: 'import re' in the try body makes re a
\* local name of process_tables_antigravity, and that statement is not
\* reached when the import of bs4 at the top of the try body fails
LocalReBound == FALSE

\* the except ImportError branch: re.compile(...) raises UnboundLocalError
\* while re is unbound, and process_chapter does not catch it
process_tables_fallback(html_content) ==
    IF LocalReBound
    THEN [raised |-> FALSE, html_content |-> FallbackFrom(html_content, 1, <<>>)]
    ELSE [raised |-> TRUE, html_content |-> html_content]

FallbackInit ==
    /\ soup \in [raised : {FALSE}, html_content : FallbackInputs]
    /\ tRuns = 0
    /\ TableOthersIdle

ApplyFallback ==
    /\ tRuns < MaxRuns
    /\ ~soup.raised
    /\ soup' = process_tables_fallback(soup.html_content)
    /\ tRuns' = tRuns + 1
    /\ UNCHANGED tableOthers

FallbackNext == ApplyFallback

SpecFallback == FallbackInit /\ [][FallbackNext]_vars

\* the div elements open at the end of the first n lexemes
RECURSIVE OpenDivs(_, _)
OpenDivs(s, n) ==
    IF n = 0 THEN <<>>
    ELSE LET st == OpenDivs(s, n - 1)
         IN  IF s[n] \in {WrapperOpen, CaptionDivOpen} THEN Append(st, s[n])
             ELSE IF s[n] = "</div>" /\ st # <<>> THEN SubSeq(st, 1, Len(st) - 1)
             ELSE st

WrappersAround(s, i) ==
    Cardinality({k \in DOMAIN OpenDivs(s, i - 1) : OpenDivs(s, i - 1)[k] = WrapperOpen})

\* C20: after the regex fallback has been applied one or more times, every
\* table, with or without a caption of any length, is inside exactly one
\* table-wrapper container.
C20_FallbackExactlyOneWrapper ==
    tRuns >= 1 =>
        /\ ~soup.raised
        /\ \A i \in DOMAIN soup.html_content :
               IsTableOpen(soup.html_content[i]) => WrappersAround(soup.html_content, i) = 1

(***************************************************************************)
(* 21, 22. Claims about the renumbering pass                               *)
(***************************************************************************)
\* the number without its last part
Parent(num) == SubSeq(num, 1, Len(num) - 1)

\* C21: scanning the numbers displayed on the headings of a chapter in
\* document order after process_chapter, no number is skipped at any level:
\* a number ending in 1 is the first section, or comes after the heading that
\* displays its parent number, and a number ending in n > 1 comes after the
\* heading that displays the same number ending in n - 1.
C21_NumbersGapFree ==
    npc = "done" =>
        \A i \in Numbered :
            LET num == shown[i]
                n == num[Len(num)]
            IN  /\ num[1] = chapter_num
                /\ n >= 1
                /\ IF n = 1
                   THEN Len(num) = 2 \/ \E j \in 1..(i - 1) : shown[j] = Parent(num)
                   ELSE \E j \in 1..(i - 1) : shown[j] = Append(Parent(num), n - 1)


\* the heading the renumbering loop is about to process
AtHeading == npc = "renumber" /\ nIdx <= Len(nHeadings)

\* the counters after the iteration for a plain section heading
SectionCounted ==
    /\ section_counter' = section_counter + 1
    /\ subsection_counter' = 0
    /\ subsubsection_counter' = 0

\* the counters after the iteration for a heading at subsection level
SubsectionCounted ==
    /\ section_counter' = section_counter
    /\ subsection_counter' = subsection_counter + 1
    /\ subsubsection_counter' = 0

TokenNo(k) == TokenOf([i \in 1..k |-> <<>>])

\* the string t is a prefix of the string u
IsPrefix(t, u) == Len(t) <= Len(u) /\ SubSeq(u, 1, Len(t)) = t

\* the content with every token replaced by the markup recorded for it, the
\* tokens inside that markup included
RECURSIVE Expand(_, _)
Expand(s, store) ==
    IF s = <<>> THEN <<>>
    ELSE (IF Head(s) \in DOMAIN store THEN Expand(store[Head(s)], store) ELSE <<Head(s)>>)
         \o Expand(Tail(s), store)

\* how often the lexeme occurs in the content and in the recorded markup
Uses(lex) ==
    Cardinality({i \in DOMAIN mContent : mContent[i] = lex})
        + Cardinality({<<t, i>> \in (DOMAIN MATH_STORE) \X (1..MaxLen) :
                          i <= Len(MATH_STORE[t]) /\ MATH_STORE[t][i] = lex})

\* C23: within one protect_math call the k-th container replaced gets the
\* token MATH_TOKEN_k__ (k = 0, 1, ...); tokens are pairwise distinct and none
\* is a prefix of another; a token recorded inside the markup of another was
\* allocated before it; the table maps each token to exactly the markup it
\* replaced, and holds nothing an earlier call left (it is emptied at the
\* start of the call).  What a token stands for is read off the content for
\* inputs whose own text spells no placeholder.
C23_TokensSequentialAndExact ==
    mpc = "protected" =>
        LET n == Cardinality(DOMAIN MATH_STORE)
        IN  /\ DOMAIN MATH_STORE = {TokenNo(k) : k \in 0..(n - 1)}
            /\ \A j, k \in 0..MaxTokens : j # k => ~IsPrefix(TokenNo(j), TokenNo(k))
            /\ ~HasPlaceholderText(mInput) =>
                   /\ \A j, k \in 0..(n - 1) :
                          (\E i \in DOMAIN MATH_STORE[TokenNo(k)] :
                               MATH_STORE[TokenNo(k)][i] = TokenNo(j)) => j < k
                   /\ Expand(mContent, MATH_STORE) = mInput
                   /\ \A t \in DOMAIN MATH_STORE : Uses(t) = 1

\* protect_math has replaced a container that holds an already replaced one
C23_Witness ==
    /\ mpc = "protected"
    /\ Cardinality(DOMAIN MATH_STORE) = 2
    /\ \E i \in DOMAIN MATH_STORE["MATH_TOKEN_1__"] :
           MATH_STORE["MATH_TOKEN_1__"][i] = "MATH_TOKEN_0__"


\* the delimiters of the containers protect_math recognises
DelimiterPairs ==
    { <<"<script>", "</script>">>, <<"<mjx-container>", "</mjx-container>">>,
      <<"<math>", "</math>">>, <<"\\[", "\\]">>, <<"$$", "$$">>, <<"\\(", "\\)">> }

\* the fragment holds an opening delimiter with its closing delimiter after it
HasContainer(s) ==
    \E i, j \in DOMAIN s : i < j /\ <<s[i], s[j]>> \in DelimiterPairs

\* content is the input with some delimited pieces replaced by one lexeme
\* each, everything else left as it was
RECURSIVE OutsideUnchanged(_, _)
OutsideUnchanged(content, input) ==
    IF content = <<>> THEN input = <<>>
    ELSE \/ /\ input # <<>>
            /\ Head(content) = Head(input)
            /\ OutsideUnchanged(Tail(content), Tail(input))
         \/ /\ Head(content) \in DOMAIN MATH_STORE
            /\ \E k \in 2..Len(input) :
                   /\ <<input[1], input[k]>> \in DelimiterPairs
                   /\ OutsideUnchanged(Tail(content), SubSeq(input, k + 1, Len(input)))

\* C24: protect_math changes nothing outside balanced recognised containers:
\* an input without one is returned unchanged with an empty token table, and
\* in any input the text outside the replaced containers is returned
\* unchanged.
C24_OnlyContainersReplaced ==
    mpc = "protected" =>
        /\ ~HasContainer(mInput) => (mContent = mInput /\ MATH_STORE = EmptyStore)
        /\ OutsideUnchanged(mContent, mInput)

\* protect_math has run on a fragment with an opening \( that nothing closes
\* and a single $$, and on nothing else it could replace
C24_Witness ==
    /\ mpc = "protected"
    /\ ~HasContainer(mInput)
    /\ \E i, j \in DOMAIN mInput : mInput[i] = "\\(" /\ mInput[j] = "$$"

(***************************************************************************)
(* 25. ONE CALL OF generate_slug                                           *)
(***************************************************************************)
\* heading texts of 47, 60, 62 and 63 characters once slugged
LongTexts ==
    { <<"Backpropagation", "Backpropagation", "Backpropagation">>,
      <<"Backpropagation", "Backpropagation", "Backpropagation", "Explicit", "foo">>,
      <<"Backpropagation", "Backpropagation", "Backpropagation", "Explicit", "Intro">>,
      <<"Backpropagation", "Backpropagation", "Backpropagation", "Backpropagation">> }

\* ids the chapter may have handed out before the call
EarlierIds ==
    { <<"intro">>, <<"intro", "2">>, <<"intro", "3">>, <<"section">>, <<"section", "2">>,
      <<"backpropagation", "backpropagation", "backpropagation">>,
      <<"backpropagation", "backpropagation", "backpropagation", "2">> }

SlugInit ==
    /\ callArgs \in [text : HeadingTexts \cup LongTexts, used_ids_set : SUBSET EarlierIds]
    /\ callResult = <<>>
    /\ CallOthersIdle

\* slug = generate_slug(text, used_ids): the id returned and the set after
\* used_ids_set.add(slug)
GenerateSlug ==
    /\ callResult = <<>>
    /\ LET slug == generate_slug(callArgs.text, callArgs.used_ids_set)
       IN  callResult' = << [slug |-> slug,
                             used_ids_set |-> callArgs.used_ids_set \cup {slug}] >>
    /\ UNCHANGED <<callArgs, callOthers>>

SlugNext == GenerateSlug

SpecSlug == SlugInit /\ [][SlugNext]_vars

LowerAlnumChars ==
    { "a", "b", "c", "d", "e", "f", "g", "h", "i", "j", "k", "l", "m", "n", "o", "p", "q",
      "r", "s", "t", "u", "v", "w", "x", "y", "z",
      "0", "1", "2", "3", "4", "5", "6", "7", "8", "9" }

\* the id part is a non-empty run of lowercase letters and digits
LowerAlnum(w) == Len(w) >= 1 /\ \A i \in 1..Len(w) : SubSeq(w, i, i) \in LowerAlnumChars

\* characters of the id: its parts and the hyphens between them
RECURSIVE IdChars(_)
IdChars(id) ==
    IF id = <<>> THEN 0
    ELSE Len(Head(id)) + (IF Len(id) > 1 THEN 1 ELSE 0) + IdChars(Tail(id))

\* C25: generate_slug returns an id that was not in the used-id set and adds
\* it to the set; the id consists only of lowercase letters, digits and
\* hyphens; its base is the slugged derived text, or a prefix of it of at most
\* 60 characters when that is longer, or `section` when the derived text is
\* empty; the id is the base when the base is unused, and otherwise base-k
\* for the smallest k >= 2 such that base-k is unused.
C25_SlugFreshAndBounded ==
    callResult # <<>> =>
        LET slug == callResult[1].slug
            used == callArgs.used_ids_set
            derived == Slugify(clean_text_for_slug(callArgs.text))
        IN  /\ slug \notin used
            /\ callResult[1].used_ids_set = used \cup {slug}
            /\ \A i \in DOMAIN slug : LowerAlnum(slug[i])
            /\ \E n \in 1..Len(slug) :
                   LET base == SubSeq(slug, 1, n)
                   IN  /\ IdChars(base) <= SlugLimit
                       /\ IF derived = <<>> THEN base = <<"section">>
                          ELSE IF IdChars(derived) <= SlugLimit THEN base = derived
                          ELSE base = SubSeq(derived, 1, n)
                       /\ IF base \notin used THEN slug = base
                          ELSE \E k \in 2..(Cardinality(used) + 2) :
                                  /\ slug = Append(base, ToString(k))
                                  /\ \A j \in 2..(k - 1) : Append(base, ToString(j)) \in used

\* generate_slug has cut a title longer than 60 characters and found both the
\* cut base and base-2 in use
C25_Witness ==
    /\ callResult # <<>>
    /\ IdChars(Slugify(clean_text_for_slug(callArgs.text))) > SlugLimit
    /\ callResult[1].slug =
           <<"backpropagation", "backpropagation", "backpropagation", "3">>

(***************************************************************************)
(* 26. THE MARKUP OF THE TABLE OF CONTENTS                                 *)
(*                                                                         *)
(* The markup is the sequence of its tags: "li" opens an entry (with its   *)
(* link), "ul" opens the entry's sub-list, "/li" and "/ul" close them.     *)
(***************************************************************************)
LiOpen(e) == [tag |-> "li", cls |-> (IF e.is_subsection THEN "toc-h4" ELSE "toc-h3"), pos |-> e.pos]
LiClose == [tag |-> "/li", cls |-> "", pos |-> 0]
UlOpen == [tag |-> "ul", cls |-> "toc-sub-list", pos |-> 0]
UlClose == [tag |-> "/ul", cls |-> "", pos |-> 0]

\* the section closed on every entry, even when none is open
RECURSIVE TocMarkupFromAlwaysClose(_, _, _)
TocMarkupFromAlwaysClose(toc, k, current_parent_id) ==
    IF k > Len(toc) THEN <<UlClose, LiClose>>
    ELSE IF toc[k].is_subsection
    THEN <<LiOpen(toc[k]), LiClose>> \o TocMarkupFromAlwaysClose(toc, k + 1, current_parent_id)
    ELSE <<UlClose, LiClose, LiOpen(toc[k]), UlOpen>>
         \o TocMarkupFromAlwaysClose(toc, k + 1, <<toc[k].pos>>)

\* Pass 3 of extract_toc_from_body from the k-th entry on; current_parent_id
\* is <<>> (None) or the id of the open section entry
RECURSIVE TocMarkupFrom(_, _, _)
TocMarkupFrom(toc, k, current_parent_id) ==
    IF k > Len(toc)
    THEN IF current_parent_id # <<>> THEN <<UlClose, LiClose>> ELSE <<>>
    ELSE IF toc[k].is_subsection
    THEN IF current_parent_id = <<>>
         THEN TocMarkupFrom(toc, k + 1, current_parent_id)
         ELSE <<LiOpen(toc[k]), LiClose>> \o TocMarkupFrom(toc, k + 1, current_parent_id)
    ELSE (IF current_parent_id # <<>> THEN <<UlClose, LiClose>> ELSE <<>>)
         \o <<LiOpen(toc[k]), UlOpen>>
         \o TocMarkupFrom(toc, k + 1, <<toc[k].pos>>)

\* the markup extract_toc_from_body returns for the headings of the chapter
toc_html(hs, nums) == TocMarkupFrom(extract_toc_from_body(hs, nums), 1, <<>>)

\* the open elements after the first n tags of the markup, innermost last:
\* <<0>> once a closing tag met no matching open element
RECURSIVE OpenAfter(_, _)
OpenAfter(m, n) ==
    IF n = 0 THEN <<>>
    ELSE LET before == OpenAfter(m, n - 1)
             t == m[n]
         IN  IF before = <<0>> THEN before
             ELSE IF t.tag \in {"li", "ul"} THEN Append(before, n)
             ELSE IF before # <<>> /\ m[before[Len(before)]].tag = SubSeq(t.tag, 2, 3)
             THEN SubSeq(before, 1, Len(before) - 1)
             ELSE <<0>>

\* C26: the markup of the table of contents is well nested: every subsection
\* entry lies inside the sub-list of the nearest preceding section entry;
\* subsection headings before the first section entry are omitted and every
\* other collected heading has its entry; every section entry opens exactly
\* one sub-list, closed before the next section entry and at the end; and no
\* h5 heading has an entry.
C26_TocWellNested ==
    npc = "done" =>
        LET toc == extract_toc_from_body(nHeadings, shown)
            m == toc_html(nHeadings, shown)
            open == [n \in 0..Len(m) |-> OpenAfter(m, n)]
            sections == {n \in DOMAIN m : m[n].tag = "li" /\ m[n].cls = "toc-h3"}
            subs == {n \in DOMAIN m : m[n].tag = "li" /\ m[n].cls = "toc-h4"}
            orphan(k) == toc[k].is_subsection /\ \A l \in 1..(k - 1) : toc[l].is_subsection
        IN  /\ \A n \in 0..Len(m) : open[n] # <<0>>
            /\ open[Len(m)] = <<>>
            /\ \A n \in subs :
                   /\ sections \cap (1..n) # {}
                   /\ LET s == CHOOSE s \in sections : s < n /\ \A r \in sections : r < n => r <= s
                      IN  open[n] = <<s, s + 1, n>>
            /\ \A n \in sections :
                   /\ open[n] = <<n>>
                   /\ n < Len(m) /\ m[n + 1] = UlOpen
                   /\ Cardinality({u \in DOMAIN m : m[u].tag = "ul" /\ u > 1
                                     /\ open[u - 1] # <<>>
                                     /\ open[u - 1][Len(open[u - 1])] = n}) = 1
            /\ \A k \in DOMAIN toc :
                   Cardinality({n \in sections \cup subs : m[n].pos = toc[k].pos})
                       = (IF orphan(k) THEN 0 ELSE 1)
            /\ \A n \in sections \cup subs :
                   /\ nHeadings[m[n].pos].tag # "h5"
                   /\ \E k \in DOMAIN toc : toc[k].pos = m[n].pos /\ LiOpen(toc[k]) = m[n]

\* a chapter that starts with a subsection heading, which is omitted, and has
\* two section entries, the first with a subsection entry in its sub-list
C26_Witness ==
    /\ npc = "done"
    /\ Len(nHeadings) = 4
    /\ nHeadings[1].tag = "h4"
    /\ LET m == toc_html(nHeadings, shown)
       IN  /\ Len(m) = 10
           /\ m[1].cls = "toc-h3" /\ m[3].cls = "toc-h4" /\ m[7].cls = "toc-h3"

(***************************************************************************)
(* 27. A SEQUENTIAL RUN OVER SEVERAL CHAPTERS                              *)
(*                                                                         *)
(* callArgs.order is the list of chapters main loops over and callResult   *)
(* the pages written so far.  mContent is doc_content: its text, the ids   *)
(* of its headings, the targets of its internal links and the numbers its  *)
(* headings display.  MATH_STORE is the module-level table; the locals of  *)
(* process_chapter keep what the previous call left in them until the      *)
(* statement that binds them.                                              *)
(***************************************************************************)
RunChapters ==
    { [num |-> 1, text |-> <<"$$", "x", "$$">>,
       heads |-> << [old |-> "x1-1000", text |-> <<"Intro">>],
                    [old |-> "x1-2000", text |-> <<"Intro">>] >>,
       titles |-> << <<"Enrichment:", "foo">> >>,
       kinds |-> << [tag |-> "h3", cls |-> "sectionHead", titlemark |-> TRUE,
                     anchor |-> <<>>, orig |-> <<1, 1>>],
                    [tag |-> "h4", cls |-> "subsectionHead", titlemark |-> TRUE,
                     anchor |-> <<>>, orig |-> <<1, 1, 1>>] >>,
       links |-> <<"x1-2000">>],
      [num |-> 7, text |-> <<"\\(", "x", "\\)", "MATH_TOKEN_0__">>,
       heads |-> << [old |-> "x1-1000", text |-> <<"Intro">>] >>,
       titles |-> << >>,
       kinds |-> << [tag |-> "h4", cls |-> "enrichment-title", titlemark |-> FALSE,
                     anchor |-> <<>>, orig |-> <<>>] >>,
       links |-> <<"x1-1000", "x1-2000">>],
      [num |-> 7, text |-> <<"MATH_TOKEN_1__">>,
       heads |-> << >>,
       titles |-> << <<"Enrichment:", "foo">>, <<"Enrichment:", "Intro">> >>,
       kinds |-> << [tag |-> "h5", cls |-> "enrichment-title", titlemark |-> FALSE,
                     anchor |-> <<>>, orig |-> <<>>] >>,
       links |-> <<"x1-1000">>],
      [num |-> 1, text |-> <<"x">>,
       heads |-> << [old |-> "x1-3000", text |-> <<"<b>", "MATH_TOKEN_0__", "</b>">>] >>,
       titles |-> << >>,
       kinds |-> << [tag |-> "h3", cls |-> "enrichment-title", titlemark |-> FALSE,
                     anchor |-> <<>>, orig |-> <<>>],
                    [tag |-> "h3", cls |-> "sectionHead", titlemark |-> TRUE,
                     anchor |-> <<>>, orig |-> <<1, 1>>] >>,
       links |-> << >>] }

runOthers == <<citeVars, tableVars, safetyVars, mainVars, rerunVars, mpc, headingIds, npc>>

RunInit ==
    /\ callArgs \in [order : UNION {[1..n -> RunChapters] : n \in 1..NumChapters}]
    /\ callResult = <<>>
    /\ MathIdle /\ IdIdle /\ NumIdle /\ RunIdle
    /\ CiteIdle /\ TableIdle /\ SafetyIdle /\ MainIdle /\ RerunIdle

\* the chapter process_chapter is working on
Cur == callArgs.order[idChapter]

\* main: process_chapter(ch['path'], ch) for the next chapter of the loop;
\* original_content = html_file.read_text(...)
RunEnter ==
    /\ idPhase \in {"idle", "between"}
    /\ idChapter < Len(callArgs.order)
    /\ idChapter' = idChapter + 1
    /\ idPhase' = "read"
    /\ LET c == callArgs.order[idChapter + 1]
       IN  /\ mInput' = c.text
           /\ mContent' = [text |-> c.text, ids |-> <<>>, links |-> <<>>, nums |-> <<>>]
           /\ chapter_num' = c.num
           /\ nHeadings' = c.kinds
    /\ UNCHANGED <<MATH_STORE, used_ids, enrichment_counter, idCount, old_to_new_id_map,
                   nIdx, section_counter, subsection_counter, subsubsection_counter,
                   shown, callVars, runOthers>>

\* doc_content = protect_math(doc_content)
RunProtectMath ==
    /\ idPhase = "read"
    /\ LET r == protect_math(mContent.text)
       IN  /\ mContent' = [mContent EXCEPT !.text = r.content]
           /\ MATH_STORE' = r.store
    /\ idPhase' = "protected"
    /\ UNCHANGED <<mInput, idChapter, used_ids, enrichment_counter, idCount,
                   old_to_new_id_map, numVars, callVars, runOthers>>

\* the two locals left as the previous call had them
RunResetIdsNot ==
    /\ idPhase = "protected"
    /\ idPhase' = "h"
    /\ idCount' = 0
    /\ UNCHANGED <<used_ids, old_to_new_id_map, mathVars, idChapter, enrichment_counter,
                   numVars, callVars, runOthers>>

\* used_ids = set(); old_to_new_id_map = {}
RunResetIds ==
    /\ idPhase = "protected"
    /\ used_ids' = {}
    /\ old_to_new_id_map' = <<>>
    /\ idPhase' = "h"
    /\ idCount' = 0
    /\ UNCHANGED <<mathVars, idChapter, enrichment_counter, numVars, callVars, runOthers>>

\* generate_readable_id on the next heading element that carries an id
RunGenerateId ==
    /\ idPhase = "h"
    /\ idCount < Len(Cur.heads)
    /\ LET h == Cur.heads[idCount + 1]
           slug == generate_slug(h.text, used_ids)
       IN  /\ used_ids' = used_ids \cup {slug}
           /\ old_to_new_id_map' =
                  [o \in (DOMAIN old_to_new_id_map) \cup {h.old} |->
                      IF o = h.old THEN slug ELSE old_to_new_id_map[o]]
           /\ mContent' = [mContent EXCEPT !.ids = Append(@, slug)]
    /\ idCount' = idCount + 1
    /\ UNCHANGED <<mInput, MATH_STORE, idChapter, idPhase, enrichment_counter, numVars,
                   callVars, runOthers>>

\* update_internal_link on every href="#..." of the chapter
RunUpdateLinks ==
    /\ idPhase = "h"
    /\ idCount = Len(Cur.heads)
    /\ mContent' = [mContent EXCEPT !.links =
                       [i \in DOMAIN Cur.links |->
                           IF Cur.links[i] \in DOMAIN old_to_new_id_map
                           THEN old_to_new_id_map[Cur.links[i]]
                           ELSE <<Cur.links[i]>>]]
    /\ idPhase' = "links"
    /\ UNCHANGED <<mInput, MATH_STORE, idChapter, used_ids, enrichment_counter, idCount,
                   old_to_new_id_map, numVars, callVars, runOthers>>

\* enrichment_counter = [0]
RunResetEnrichment ==
    /\ idPhase = "links"
    /\ enrichment_counter' = 0
    /\ idCount' = 0
    /\ idPhase' = "enrichment"
    /\ UNCHANGED <<mathVars, idChapter, used_ids, old_to_new_id_map, numVars, callVars,
                   runOthers>>

\* enrichment_title_repl on the next enrichment title paragraph
RunEnrichmentTitle ==
    /\ idPhase = "enrichment"
    /\ idCount < Len(Cur.titles)
    /\ enrichment_counter' = enrichment_counter + 1
    /\ mContent' = [mContent EXCEPT !.ids =
                       Append(@, EnrichmentId(Cur.titles[idCount + 1], enrichment_counter + 1))]
    /\ idCount' = idCount + 1
    /\ UNCHANGED <<mInput, MATH_STORE, idChapter, idPhase, used_ids, old_to_new_id_map,
                   numVars, callVars, runOthers>>

\* section_counter = 0; subsection_counter = 0; subsubsection_counter = 0
RunResetCounters ==
    /\ idPhase = "enrichment"
    /\ idCount = Len(Cur.titles)
    /\ section_counter' = 0
    /\ subsection_counter' = 0
    /\ subsubsection_counter' = 0
    /\ nIdx' = 1
    /\ shown' = <<>>
    /\ idPhase' = "renumber"
    /\ UNCHANGED <<mathVars, idChapter, used_ids, enrichment_counter, idCount,
                   old_to_new_id_map, chapter_num, nHeadings, callVars, runOthers>>

\* the body of `for heading in headings` for the next heading
RunRenumber ==
    /\ idPhase = "renumber"
    /\ nIdx <= Len(nHeadings)
    /\ LET r == RenumberOne(nHeadings[nIdx], chapter_num, section_counter,
                            subsection_counter, subsubsection_counter)
       IN  /\ section_counter' = r.sec
           /\ subsection_counter' = r.sub
           /\ subsubsection_counter' = r.subsub
           /\ shown' = Append(shown, r.num)
    /\ nIdx' = nIdx + 1
    /\ UNCHANGED <<mathVars, idVars, old_to_new_id_map, chapter_num, nHeadings, callVars,
                   runOthers>>

\* doc_content = restore_math(doc_content); the page is assembled and
\* html_file.write_text(html)
RunRestoreWrite ==
    /\ idPhase = "renumber"
    /\ nIdx > Len(nHeadings)
    /\ LET page == [text |-> restore_math(mContent.text, MATH_STORE), ids |-> mContent.ids,
                    links |-> mContent.links, nums |-> shown]
       IN  /\ mContent' = page
           /\ callResult' = Append(callResult, page)
    /\ idPhase' = "between"
    /\ UNCHANGED <<mInput, MATH_STORE, idChapter, used_ids, enrichment_counter, idCount,
                   old_to_new_id_map, numVars, callArgs, runOthers>>

RunNext ==
    \/ RunEnter
    \/ RunProtectMath
    \/ RunResetIds
    \/ RunGenerateId
    \/ RunUpdateLinks
    \/ RunResetEnrichment
    \/ RunEnrichmentTitle
    \/ RunResetCounters
    \/ RunRenumber
    \/ RunRestoreWrite

SpecRun == RunInit /\ [][RunNext]_vars

\* the ids generate_readable_id gives the headings from the k-th on, and the
\* map it fills
RECURSIVE IdsAlone(_, _, _, _, _)
IdsAlone(heads, k, used, map, ids) ==
    IF k > Len(heads) THEN [ids |-> ids, map |-> map]
    ELSE LET slug == generate_slug(heads[k].text, used)
         IN  IdsAlone(heads, k + 1, used \cup {slug},
                      [o \in (DOMAIN map) \cup {heads[k].old} |->
                          IF o = heads[k].old THEN slug ELSE map[o]],
                      Append(ids, slug))

RECURSIVE NumsAlone(_, _, _, _, _, _)
NumsAlone(kinds, ch, k, sec, sub, subsub) ==
    IF k > Len(kinds) THEN <<>>
    ELSE LET r == RenumberOne(kinds[k], ch, sec, sub, subsub)
         IN  <<r.num>> \o NumsAlone(kinds, ch, k + 1, r.sec, r.sub, r.subsub)

\* the page of a chapter processed in a run of its own
ProcessedAlone(c) ==
    LET m == protect_math(c.text)
        h == IdsAlone(c.heads, 1, {}, <<>>, <<>>)
    IN  [text |-> restore_math(m.content, m.store),
         ids |-> h.ids \o [i \in DOMAIN c.titles |-> EnrichmentId(c.titles[i], i)],
         links |-> [i \in DOMAIN c.links |->
                       IF c.links[i] \in DOMAIN h.map THEN h.map[c.links[i]]
                       ELSE <<c.links[i]>>],
         nums |-> NumsAlone(c.kinds, c.num, 1, 0, 0, 0)]

page_renderer_validate_output_safety(html_content) ==
    LET match == MarkerMatch(html_content)
        content == IF match = <<>> THEN html_content ELSE match[1]
    IN  IF Count(html_content, DocContentAttr) # 1
            THEN <<FALSE, "Invalid doc_content count">>
        ELSE IF match = <<>> /\ TextLen(html_content) < MinTotalLength
            THEN <<FALSE, "Total HTML too short">>
        ELSE IF match # <<>> /\ TextLen(content) < MIN_CONTENT_LENGTH
            THEN <<FALSE, "Content too short">>
        ELSE IF ~HasMainHeading(content)
            THEN <<FALSE, "No headings (h1/h2) found in content">>
        ELSE IF HasMathToken(html_content)
            THEN <<FALSE, "Unrestored math placeholder found">>
        ELSE IF Count(html_content, SidebarAttr) # 1
            THEN <<FALSE, "Invalid sidebar count">>
        ELSE IF Count(html_content, TopBarAttr) # 1
            THEN <<FALSE, "Invalid top-bar count">>
        ELSE <<TRUE, "">>

\* utils.validate_output_safety, the one post_processor/__init__.py exports:
\* '<html' and '<body' are in the head of the page template
utils_validate_output_safety(html_content) ==
    IF html_content = <<>>
        THEN <<FALSE, "Empty content">>
    ELSE IF TextLen(html_content) < MIN_CONTENT_LENGTH
        THEN <<FALSE, "Content too short">>
    ELSE IF Count(html_content, PageHead) = 0
        THEN <<FALSE, "Missing <html> tag">>
    ELSE <<TRUE, "">>

\* C28: the validate_output_safety of core.py, of page_renderer.py and of
\* utils.py give every assembled page the same safe/unsafe verdict; each of
\* them rejects a page that holds an unresolved MATH_TOKEN_ placeholder and a
\* page that does not have exactly one doc_content container.
C28_ValidatorsAgree ==
    verdict # <<>> =>
        LET core == verdict[1]
            renderer == page_renderer_validate_output_safety(html)[1]
            utils == utils_validate_output_safety(html)[1]
        IN  /\ core = renderer
            /\ core = utils
            /\ (HasMathToken(html) \/ Count(html, DocContentAttr) # 1) =>
                   (~core /\ ~renderer /\ ~utils)

(***************************************************************************)
(* 29. ONLY_CHAPTER_NUM                                                    *)
(***************************************************************************)
\* C29: when ONLY_CHAPTER_NUM is set, main calls process_chapter for no
\* chapter with a different number and writes no chapter file with a different
\* number, also when no discovered chapter has the requested number.
C29_OnlyRequestedChapter ==
    (pcMain # "idle" /\ ONLY_CHAPTER_NUM # 0) =>
        /\ \A i \in 1..Len(to_process) : to_process[i] = ONLY_CHAPTER_NUM
        /\ \A c \in DOMAIN files :
               c # ONLY_CHAPTER_NUM => (c \notin DOMAIN verdicts /\ files[c] = original[c])

(***************************************************************************)
(* 30. normalize_bib_key APPLIED TWICE                                     *)
(***************************************************************************)
\* the key of the link as the pass reads it: the anchor after '#', or what
\* follows bibliography.html#bib-
KeyRead(href) == IF Head(href) = "#" THEN LStrip(href, {"#"}) ELSE Tail(href)

\* C30: normalize_bib_key(normalize_bib_key(k)) = normalize_bib_key(k) for
\* the key of every link, and the link pass applied again to a link it has
\* rewritten to bibliography.html#bib-<key> leaves the href unchanged.
C30_NormalizeIdempotent ==
    cpc = "numbers" =>
        /\ normalize_bib_key(normalize_bib_key(KeyRead(cOrig.href)))
               = normalize_bib_key(KeyRead(cOrig.href))
        /\ Head(cLink.href) = BibPage => cite_repl(cLink.href) = cLink.href

=============================================================================
